---- MODULE Spec2Model ----
(***************************************************************************)
(* Fly-in: drones routed through a hub network.  The module models the     *)
(* scheduler of srcs/solver/graph_solver.py: the adjacency registry, the   *)
(* per-drone time-expanded search over a heap, and the commit of each      *)
(* accepted path into the shared reservation table; the timeline built     *)
(* from the paths and the text Manager.classic_render prints from it; the  *)
(* two drivers (Manager.execute and main.py); the validators of            *)
(* src/models.py; and the line scanner of src/parser.py.                   *)
(***************************************************************************)
EXTENDS Integers, Sequences, FiniteSets, TLC

(***************************************************************************)
(* Bounds of the model.                                                    *)
(***************************************************************************)
\* largest nb_drones of a network
MaxDrones == 3
\* most interior hubs of the arguments given to MapModel
MaxHubs == 2
\* most connections of the arguments given to MapModel
MaxConnections == 2
\* most lines of a file given to scan_file_format
MaxLines == 4
MaxTokens == 3
\* largest count of end_hub, either side of 0, from which a key is handled
MaxShown == 4
\* largest max_drones of an interior hub
MaxCap == 2
\* largest max_link_capacity of a connection
MaxLinkCap == 1
\* last turn whose frontier states the search model pops
Horizon == 9

(***************************************************************************)
(* Names.  Hub names of the model are single upper-case letters, which     *)
(* Python's str ordering compares by code point.                           *)
(***************************************************************************)
StartName == "S"
EndName == "E"
InteriorNames == <<"A", "B">>

CodePoint ==
    ("A" :> 65) @@ ("B" :> 66) @@ ("E" :> 69) @@ ("S" :> 83) @@ ("X" :> 88)

\* str.__lt__ on hub names
StrLess(a, b) == CodePoint[a] < CodePoint[b]

\* link = sorted([a, b]); link_str = link[0] + "-" + link[1]
LinkStr(a, b) == IF StrLess(b, a) THEN b \o "-" \o a ELSE a \o "-" \o b

\* id = "D" + str(i)
DroneId(i) == "D" \o ToString(i)

Zones == {"normal", "blocked", "restricted", "priority"}

\* Cost with the restricted surcharge forgotten
Cost_Uniform(zone) == 1

\* cost = {"normal": 1, "restricted": 2, "priority": 1}
Cost(zone) == IF zone = "restricted" THEN 2 ELSE 1

(***************************************************************************)
(* Networks.  A HubModel is [name, zone, max_drones]; a ConnectionModel is *)
(* [zone_1, zone_2, max_link_capacity]; a MapModel is [nb_drones,          *)
(* start_hub, end_hub, hubs, connections].  Coordinates and colours play   *)
(* no part in scheduling and are left out.                                 *)
(***************************************************************************)
HubModel(name, zone, max_drones) ==
    [name |-> name, zone |-> zone, max_drones |-> max_drones]

ConnectionModel(zone_1, zone_2, max_link_capacity) ==
    [zone_1 |-> zone_1, zone_2 |-> zone_2,
     max_link_capacity |-> max_link_capacity]

\* the unordered hub pairs a network of the model may connect, in file order
PossibleLinks ==
    << <<"S", "A">>, <<"A", "E">>, <<"S", "B">>,
       <<"B", "E">>, <<"B", "A">>, <<"S", "E">> >>

RECURSIVE SelectConnections(_, _, _)
\* the connections of PossibleLinks whose index is in chosen, in order
SelectConnections(k, chosen, cap) ==
    IF k > Len(PossibleLinks) THEN <<>>
    ELSE LET rest == SelectConnections(k + 1, chosen, cap)
         IN  IF k \in chosen
             THEN <<ConnectionModel(PossibleLinks[k][1],
                                    PossibleLinks[k][2], cap)>> \o rest
             ELSE rest

\* endpoint zone pairs of the model: <<start zone, end zone>>
EndpointZones ==
    { <<"normal", "restricted">>,
      <<"blocked", "normal">>, <<"normal", "blocked">>,
      <<"priority", "priority">> }

\* a network of the model
MapModel(n, sz, ez, sc, za, zb, ca, cb, chosen, lc) ==
    [nb_drones   |-> n,
     start_hub   |-> HubModel(StartName, sz, sc),
     end_hub     |-> HubModel(EndName, ez, sc),
     hubs        |-> << HubModel(InteriorNames[1], za, ca),
                        HubModel(InteriorNames[2], zb, cb) >>,
     connections |-> SelectConnections(1, chosen, lc)]

\* networks with normal endpoints: hub A of any zone and capacity, hub B of
\* any zone but blocked, every set of connections, every link capacity
InteriorMaps ==
    { MapModel(n, "normal", "normal", 1, za, zb, ca, MaxCap, chosen, lc) :
        n \in 1..MaxDrones, za \in Zones, zb \in Zones \ {"blocked"},
        ca \in 0..MaxCap,
        chosen \in SUBSET (1..Len(PossibleLinks)), lc \in 0..MaxLinkCap }

\* networks whose endpoints are not both normal, with max_drones = 0 there
EndpointMaps ==
    { MapModel(n, z[1], z[2], 0, za, "priority", 1, 1, chosen, 1) :
        n \in 1..MaxDrones, z \in EndpointZones,
        za \in {"normal", "restricted"},
        chosen \in SUBSET (1..Len(PossibleLinks)) }

\* networks of two hubs: start_hub and end_hub of max_drones 1, joined by
\* the connection S-E or by none
TwoHubMaps ==
    { [nb_drones   |-> n,
       start_hub   |-> HubModel(StartName, "normal", 1),
       end_hub     |-> HubModel(EndName, "normal", 1),
       hubs        |-> << >>,
       connections |-> SelectConnections(1, chosen, lc)] :
        n \in 1..MaxDrones, chosen \in SUBSET {Len(PossibleLinks)},
        lc \in 0..MaxLinkCap }

MapModels == InteriorMaps \cup EndpointMaps \cup TwoHubMaps

(***************************************************************************)
(* State of one run of the program: the Solver's fields and the locals of  *)
(* generate_solution and _find_path, then what Manager.execute holds.      *)
(***************************************************************************)
VARIABLES
    map,          \* self.map, the validated MapModel
    records,      \* self.records: hub name -> list of outgoing moves
    index_hubs,   \* self.index_hubs: hub name -> HubModel
    reservation,  \* self.reservation: (location, turn) -> list of drone ids
    solution,     \* solution: drone id -> path
    i,            \* loop variable of generate_solution
    heap,         \* heap of _find_path, entries (turn, priority, hub, path)
    visited,      \* visited of _find_path, pairs (hub, turn)
    path,         \* value returned by _find_path: [none, stamps]
    pc,           \* position in the program
    timeline,     \* value returned by generate_timeline
    output,       \* the text classic_render prints, as a list of pieces
    argv,         \* sys.argv
    file,         \* what create_map_data returns for the file argv[1] names
    exit_status,  \* status passed to sys.exit, if any
    arguments,    \* keyword arguments given to MapModel
    report,       \* outcome of the validation of arguments
    lines,        \* f.readlines() of the file scan_file_format opens
    scanned,      \* outcome of scan_file_format
    self_turn,          \* Renderer.turn, the turn the replay shows
    hub_drones,         \* hub.drones of each Hub of Renderer.hubs, by name
    connection_drones,  \* connection.drones of each of Renderer.connections
    max_turn            \* Renderer.max_turn, the last turn of the replay

solverVars == <<map, records, index_hubs, reservation, solution, i, heap,
                visited, path>>

driverVars == <<argv, file, exit_status>>

validationVars == <<arguments, report>>

scanVars == <<lines, scanned>>

rendererVars == <<self_turn, hub_drones, connection_drones, max_turn>>

vars == <<map, records, index_hubs, reservation, solution, i, heap,
          visited, path, pc, timeline, output, argv, file, exit_status,
          arguments, report, lines, scanned,
          self_turn, hub_drones, connection_drones, max_turn>>

\* the value None returned by _find_path
None == [none |-> TRUE, stamps |-> <<>>]

\* a list of stamps returned by _find_path
Some(stamps) == [none |-> FALSE, stamps |-> stamps]

\* hubs = [self.map.start_hub, self.map.end_hub] + self.map.hubs
AllHubs(m) == <<m.start_hub, m.end_hub>> \o m.hubs

HubNames(m) == { AllHubs(m)[k].name : k \in 1..Len(AllHubs(m)) }

\* self.index_hubs as init_registry fills it (hub names are unique)
IndexHubs(m) ==
    [ name \in HubNames(m) |->
        AllHubs(m)[CHOOSE k \in 1..Len(AllHubs(m)) :
                       AllHubs(m)[k].name = name] ]

\* Package that carries the default link capacity, not the connection's
Package_DefaultLink(target, max_link_capacity) ==
    [zone          |-> target.name,
     type          |-> target.zone,
     cost          |-> Cost(target.zone),
     capacity      |-> target.max_drones,
     link_capacity |-> 1]

\* package_1 / package_2 of init_registry: the move into hub target
Package(target, max_link_capacity) ==
    [zone          |-> target.name,
     type          |-> target.zone,
     cost          |-> Cost(target.zone),
     capacity      |-> target.max_drones,
     link_capacity |-> max_link_capacity]

RECURSIVE BuildRecords_KeepBlocked(_, _, _)
\* BuildRecords without the test that skips connections of blocked hubs
BuildRecords_KeepBlocked(m, k, recs) ==
    IF k > Len(m.connections) THEN recs
    ELSE LET connection == m.connections[k]
             hub_1 == IndexHubs(m)[connection.zone_1]
             hub_2 == IndexHubs(m)[connection.zone_2]
         IN  BuildRecords_KeepBlocked(m, k + 1,
                 [recs EXCEPT
                    ![hub_1.name] = Append(@,
                        Package(hub_2, connection.max_link_capacity)),
                    ![hub_2.name] = Append(@,
                        Package(hub_1, connection.max_link_capacity))])

RECURSIVE BuildRecords(_, _, _)
\* the loop over self.map.connections of init_registry, from connection k
BuildRecords(m, k, recs) ==
    IF k > Len(m.connections) THEN recs
    ELSE LET connection == m.connections[k]
             hub_1 == IndexHubs(m)[connection.zone_1]
             hub_2 == IndexHubs(m)[connection.zone_2]
         IN  IF hub_1.zone = "blocked" \/ hub_2.zone = "blocked"
             THEN BuildRecords(m, k + 1, recs)
             ELSE BuildRecords(m, k + 1,
                    [recs EXCEPT
                       ![hub_1.name] = Append(@,
                           Package(hub_2, connection.max_link_capacity)),
                       ![hub_2.name] = Append(@,
                           Package(hub_1, connection.max_link_capacity))])

\* self.records after init_registry
Registry(m) == BuildRecords(m, 1, [name \in HubNames(m) |-> <<>>])

(***************************************************************************)
(* Reservation table.                                                      *)
(***************************************************************************)
\* IsAvailable without the exemption of start_hub and end_hub
IsAvailable_NoExemption(res, location, turn, capacity, is_endpoint) ==
    IF <<location, turn>> \notin DOMAIN res THEN TRUE
    ELSE Len(res[<<location, turn>>]) < capacity

\* Solver._is_available
IsAvailable(res, location, turn, capacity, is_endpoint) ==
    IF is_endpoint THEN TRUE
    ELSE IF <<location, turn>> \notin DOMAIN res THEN TRUE
    ELSE Len(res[<<location, turn>>]) < capacity

\* BookReservation that appends the id again to an entry that exists
BookReservation_Again(res, id, location, turn) ==
    IF <<location, turn>> \in DOMAIN res
    THEN [res EXCEPT ![<<location, turn>>] = Append(Append(@, id), id)]
    ELSE (<<location, turn>> :> <<id>>) @@ res

\* Solver._book_reservation
BookReservation(res, id, location, turn) ==
    IF <<location, turn>> \in DOMAIN res
    THEN [res EXCEPT ![<<location, turn>>] = Append(@, id)]
    ELSE (<<location, turn>> :> <<id>>) @@ res

RECURSIVE CommitFrom(_, _, _, _)
\* the loop `for j in range(len(solution[id]))` of generate_solution
CommitFrom(res, id, stamps, j) ==
    IF j > Len(stamps) THEN res
    ELSE LET withLink ==
                 IF j + 1 <= Len(stamps) /\ stamps[j][1] # stamps[j + 1][1]
                 THEN BookReservation(res, id,
                          LinkStr(stamps[j][1], stamps[j + 1][1]),
                          stamps[j][2])
                 ELSE res
         IN  CommitFrom(
                 BookReservation(withLink, id, stamps[j][1], stamps[j][2]),
                 id, stamps, j + 1)

(***************************************************************************)
(* Heap of _find_path.  heapq pops the least entry under Python's tuple    *)
(* ordering of (turn, priority, hub, path); equal entries are              *)
(* indistinguishable and the second one popped is discarded by the visited *)
(* test, so the heap is modelled as the set of its entries.                *)
(***************************************************************************)
\* tuple.__lt__ on stamps (hub, turn)
StampLess(a, b) ==
    \/ StrLess(a[1], b[1])
    \/ a[1] = b[1] /\ a[2] < b[2]

RECURSIVE PathLessFrom(_, _, _)
\* list.__lt__ on lists of stamps, comparing from position k
PathLessFrom(p, q, k) ==
    IF k > Len(p) THEN k <= Len(q)
    ELSE IF k > Len(q) THEN FALSE
    ELSE IF p[k] = q[k] THEN PathLessFrom(p, q, k + 1)
    ELSE StampLess(p[k], q[k])

PathLess(p, q) == PathLessFrom(p, q, 1)

\* EntryLess with the priority score compared before the turn
EntryLess_PriorityFirst(a, b) ==
    \/ a[2] < b[2]
    \/ a[2] = b[2] /\ a[1] < b[1]
    \/ a[1] = b[1] /\ a[2] = b[2] /\ StrLess(a[3], b[3])
    \/ a[1] = b[1] /\ a[2] = b[2] /\ a[3] = b[3] /\ PathLess(a[4], b[4])

\* tuple.__lt__ on heap entries (turn, priority, hub, path)
EntryLess(a, b) ==
    \/ a[1] < b[1]
    \/ a[1] = b[1] /\ a[2] < b[2]
    \/ a[1] = b[1] /\ a[2] = b[2] /\ StrLess(a[3], b[3])
    \/ a[1] = b[1] /\ a[2] = b[2] /\ a[3] = b[3] /\ PathLess(a[4], b[4])

\* HeapMin that pops the entry of least priority score, whatever its turn
HeapMin_LeastScore(h) ==
    CHOOSE m \in h : \A o \in h \ {m} :
        m[2] < o[2] \/ (m[2] = o[2] /\ EntryLess(m, o))

\* the entry hp.heappop(heap) returns
HeapMin(h) == CHOOSE m \in h : \A o \in h \ {m} : EntryLess(m, o)

\* end_point of _find_path
IsEndpoint(m, name) == name = m.start_hub.name \/ name = m.end_hub.name

\* MovePushes with the priority score raised, not lowered, by a priority hub
MovePushes_PriorityPenalty(m, recs, res, move) ==
    { << move[1] + d.cost,
         IF d.type = "priority" THEN move[2] + 1 ELSE move[2],
         d.zone,
         Append(move[4], <<d.zone, move[1] + d.cost>>) >> :
        d \in { recs[move[3]][k] : k \in
                  { k \in 1..Len(recs[move[3]]) :
                      /\ IsAvailable(res, recs[move[3]][k].zone,
                             move[1] + recs[move[3]][k].cost,
                             recs[move[3]][k].capacity,
                             IsEndpoint(m, recs[move[3]][k].zone))
                      /\ IsAvailable(res,
                             LinkStr(move[3], recs[move[3]][k].zone),
                             move[1],
                             recs[move[3]][k].link_capacity, FALSE) } } }

\* the entries pushed by `for d in self.records[move[2]]`
MovePushes(m, recs, res, move) ==
    { << move[1] + d.cost,
         IF d.type = "priority" THEN move[2] - 1 ELSE move[2],
         d.zone,
         Append(move[4], <<d.zone, move[1] + d.cost>>) >> :
        d \in { recs[move[3]][k] : k \in
                  { k \in 1..Len(recs[move[3]]) :
                      /\ IsAvailable(res, recs[move[3]][k].zone,
                             move[1] + recs[move[3]][k].cost,
                             recs[move[3]][k].capacity,
                             IsEndpoint(m, recs[move[3]][k].zone))
                      /\ IsAvailable(res,
                             LinkStr(move[3], recs[move[3]][k].zone),
                             move[1],
                             recs[move[3]][k].link_capacity, FALSE) } } }

\* WaitPushes that never pushes the wait in place
WaitPushes_Never(m, idx, res, move) == {}

\* WaitPushes whose wait lasts two turns
WaitPushes_TwoTurns(m, idx, res, move) ==
    IF IsAvailable(res, move[3], move[1] + 2, idx[move[3]].max_drones,
                   IsEndpoint(m, move[3]))
    THEN { << move[1] + 2, move[2], move[3],
              Append(move[4], <<move[3], move[1] + 2>>) >> }
    ELSE {}

\* the entry pushed for the wait in place, if the hub is available
WaitPushes(m, idx, res, move) ==
    IF IsAvailable(res, move[3], move[1] + 1, idx[move[3]].max_drones,
                   IsEndpoint(m, move[3]))
    THEN { << move[1] + 1, move[2], move[3],
              Append(move[4], <<move[3], move[1] + 1>>) >> }
    ELSE {}

(***************************************************************************)
(* Timeline.  A Python dict is modelled as the list of its (key, value)    *)
(* items in insertion order; the timeline maps each turn to such a dict    *)
(* from hub names and edge labels to lists of drone ids.                   *)
(***************************************************************************)
\* if key in d: d[key] += [id]  else: d[key] = [id]
DictAppend(d, key, id) ==
    IF \E k \in 1..Len(d) : d[k][1] = key
    THEN LET k == CHOOSE n \in 1..Len(d) : d[n][1] = key
         IN  [d EXCEPT ![k] = <<key, Append(@[2], id)>>]
    ELSE Append(d, <<key, <<id>> >>)

\* d[key] = value
DictSet(d, key, value) ==
    IF \E k \in 1..Len(d) : d[k][1] = key
    THEN LET k == CHOOSE n \in 1..Len(d) : d[n][1] = key
         IN  [d EXCEPT ![k] = <<key, value>>]
    ELSE Append(d, <<key, value>>)

RECURSIVE SolutionKeys(_, _, _)
\* list(solutions.keys()): the ids in the order generate_solution added them
SolutionKeys(sol, k, n) ==
    IF k > n THEN << >>
    ELSE IF DroneId(k) \in DOMAIN sol
         THEN <<DroneId(k)>> \o SolutionKeys(sol, k + 1, n)
         ELSE SolutionKeys(sol, k + 1, n)

\* max(nb_turn): the largest turn of any stamp of the solution
MaxTurn(sol) ==
    LET nb_turn == UNION { { sol[id][k][2] : k \in 1..Len(sol[id]) } :
                             id \in DOMAIN sol }
    IN  CHOOSE t \in nb_turn : \A u \in nb_turn : u <= t

RECURSIVE InFlight(_, _, _, _, _, _)
\* for j in range(1, diff): the drone is on the edge at turn + j
InFlight(tl, id, link, turn, j, diff) ==
    IF j >= diff THEN tl
    ELSE InFlight([tl EXCEPT ![turn + j] = DictAppend(@, link, id)],
                  id, link, turn, j + 1, diff)

RECURSIVE TimelineOfPath(_, _, _, _)
\* for i in range(len(value)): stamp k of the path of drone id, then the
\* turns in flight between stamp k and stamp k + 1
TimelineOfPath(tl, id, value, k) ==
    IF k > Len(value) THEN tl
    ELSE LET stamped == [tl EXCEPT ![value[k][2]] =
                             DictAppend(@, value[k][1], id)]
         IN  IF k + 1 <= Len(value)
             THEN IF value[k][1] = value[k + 1][1]
                  THEN TimelineOfPath(stamped, id, value, k + 1)
                  ELSE IF value[k + 1][2] - value[k][2] > 1
                  THEN TimelineOfPath(
                           InFlight(stamped, id,
                                    LinkStr(value[k][1], value[k + 1][1]),
                                    value[k][2], 1,
                                    value[k + 1][2] - value[k][2]),
                           id, value, k + 1)
                  ELSE TimelineOfPath(stamped, id, value, k + 1)
             ELSE TimelineOfPath(stamped, id, value, k + 1)

RECURSIVE TimelineOfSolution(_, _, _, _)
\* for key, value in solutions.items()
TimelineOfSolution(tl, sol, keys, k) ==
    IF k > Len(keys) THEN tl
    ELSE TimelineOfSolution(TimelineOfPath(tl, keys[k], sol[keys[k]], 1),
                            sol, keys, k + 1)

\* TimelineOf without the final assignment of timeline[0][start_hub]
TimelineOf_NoTurnZero(m, sol) ==
    TimelineOfSolution([t \in 0..MaxTurn(sol) |-> << >>], sol,
                       SolutionKeys(sol, 1, m.nb_drones), 1)

\* the timeline generate_timeline returns for a non-empty solutions
TimelineOf(m, sol) ==
    LET keys == SolutionKeys(sol, 1, m.nb_drones)
        filled == TimelineOfSolution([t \in 0..MaxTurn(sol) |-> << >>],
                                     sol, keys, 1)
    IN  [filled EXCEPT ![0] = DictSet(@, m.start_hub.name, keys)]

(***************************************************************************)
(* Text of classic_render.  A str is modelled as the list of its pieces:   *)
(* tokens and the separators " " and "\n" between them.                    *)
(***************************************************************************)
\* latest_loc as classic_render fills it before its loop over the turns
LatestLoc(m) == [id \in { DroneId(k) : k \in 1..m.nb_drones } |->
                    <<m.start_hub.name>>]

RECURSIVE TokensOfIds(_, _, _, _)
\* for id in v: one token unless latest_loc[id][-1] == key
TokensOfIds(key, v, k, latest_loc) ==
    IF k > Len(v) THEN << >>
    ELSE IF latest_loc[v[k]][Len(latest_loc[v[k]])] = key
         THEN TokensOfIds(key, v, k + 1, latest_loc)
         ELSE <<v[k] \o "-" \o key>>
                  \o TokensOfIds(key, v, k + 1, latest_loc)

RECURSIVE TokensOfTurn(_, _, _)
\* for key, v in actual_turn.items()
TokensOfTurn(actual_turn, k, latest_loc) ==
    IF k > Len(actual_turn) THEN << >>
    ELSE TokensOfIds(actual_turn[k][1], actual_turn[k][2], 1, latest_loc)
             \o TokensOfTurn(actual_turn, k + 1, latest_loc)

RECURSIVE Join_SkipEmpty(_, _, _)
\* Join that leaves the empty strings out
Join_SkipEmpty(strs, sep, k) ==
    IF k > Len(strs) THEN << >>
    ELSE IF strs[k] = << >> THEN Join_SkipEmpty(strs, sep, k + 1)
    ELSE IF k = Len(strs) THEN strs[k]
    ELSE strs[k] \o <<sep>> \o Join_SkipEmpty(strs, sep, k + 1)

RECURSIVE Join(_, _, _)
\* sep.join(strs[k:]) on strs, a list of str
Join(strs, sep, k) ==
    IF k > Len(strs) THEN << >>
    ELSE IF k = Len(strs) THEN strs[k]
    ELSE strs[k] \o <<sep>> \o Join(strs, sep, k + 1)

\* TurnStrs whose loop over the turns begins at turn 0
TurnStrs_FromZero(m, sol, tl) ==
    [ n \in 1..(MaxTurn(sol) + 1) |->
        Join([ k \in 1..Len(TokensOfTurn(tl[n - 1], 1, LatestLoc(m))) |->
                 <<TokensOfTurn(tl[n - 1], 1, LatestLoc(m))[k]>> ], " ", 1) ]

\* the list turn of classic_render: one " ".join(t) per turn 1..nb_turn
TurnStrs(m, sol, tl) ==
    [ t \in 1..MaxTurn(sol) |->
        Join([ n \in 1..Len(TokensOfTurn(tl[t], 1, LatestLoc(m))) |->
                 <<TokensOfTurn(tl[t], 1, LatestLoc(m))[n]>> ], " ", 1) ]

\* what print(output) writes: "\n".join(turn) and the newline print adds
Printed(m, sol, tl) == Join(TurnStrs(m, sol, tl), "\n", 1) \o <<"\n">>

(***************************************************************************)
(* Actions.                                                                *)
(***************************************************************************)
\* the value of map_config when create_map_data produced no MapModel
NoMap == [none |-> TRUE]

\* no MapModel is being validated
NoValidation == arguments = << >> /\ report = << >>

\* no file is being scanned
NoScan == lines = << >> /\ scanned = << >>

\* no Renderer has been constructed
NoRenderer ==
    /\ self_turn = 0
    /\ hub_drones = << >>
    /\ connection_drones = << >>
    /\ max_turn = 0

\* the fields of a Solver just constructed and the locals not yet assigned
NewSolver ==
    /\ records = << >>
    /\ index_hubs = << >>
    /\ reservation = << >>
    /\ solution = << >>
    /\ i = 0
    /\ heap = {}
    /\ visited = {}
    /\ path = None
    /\ timeline = << >>
    /\ output = << >>

\* Manager.execute with a file argument alone, once validate_args has
\* returned True and Solver(self.map_config) is constructed
Init ==
    /\ map \in MapModels
    /\ NewSolver
    /\ NoRenderer
    /\ pc = "init_registry"
    /\ argv = <<"main.py", "map.txt">>
    /\ file = map
    /\ exit_status = << >>
    /\ NoValidation
    /\ NoScan

\* generate_solution, lines 225-227: self.init_registry(); solution = {}
InitRegistry ==
    /\ pc = "init_registry"
    /\ records' = Registry(map)
    /\ index_hubs' = IndexHubs(map)
    /\ solution' = << >>
    /\ i' = 1
    /\ pc' = "for"
    /\ UNCHANGED <<map, reservation, heap, visited, path, timeline, output>>
    /\ UNCHANGED <<rendererVars, driverVars, validationVars, scanVars>>

\* head of `for i in range(1, nb_drones + 1)`: enter _find_path and push
\* the initial entry, or leave the loop and return solution
ForDrone ==
    /\ pc = "for"
    /\ IF i <= map.nb_drones
       THEN /\ visited' = {}
            /\ heap' = { <<0, 0, map.start_hub.name, <<>> >> }
            /\ pc' = "while"
       ELSE /\ pc' = "return"
            /\ UNCHANGED <<heap, visited>>
    /\ UNCHANGED <<map, records, index_hubs, reservation, solution, i, path,
                   timeline, output>>
    /\ UNCHANGED <<rendererVars, driverVars, validationVars, scanVars>>

\* FindStep that books the stamps of the path it returns
FindStep_Booking ==
    /\ pc = "while"
    /\ heap # {} => HeapMin(heap)[1] <= Horizon
    /\ IF heap = {}
       THEN /\ path' = None
            /\ pc' = "found"
            /\ UNCHANGED <<heap, visited>>
       ELSE LET move == HeapMin(heap)
                popped == heap \ {move}
            IN  IF <<move[3], move[1]>> \in visited
                THEN /\ heap' = popped
                     /\ UNCHANGED <<visited, path, pc>>
                ELSE IF move[3] = map.end_hub.name
                THEN /\ visited' = visited \cup {<<move[3], move[1]>>}
                     /\ heap' = popped
                     /\ path' = Some(move[4])
                     /\ pc' = "found"
                     /\ reservation' =
                            CommitFrom(reservation, DroneId(i), move[4], 1)
                ELSE /\ visited' = visited \cup {<<move[3], move[1]>>}
                     /\ heap' = popped
                                \cup MovePushes(map, records, reservation,
                                                move)
                                \cup WaitPushes(map, index_hubs,
                                                reservation, move)
                     /\ UNCHANGED <<path, pc>>
    /\ \/ heap # {} /\ HeapMin(heap)[3] = map.end_hub.name
          /\ <<HeapMin(heap)[3], HeapMin(heap)[1]>> \notin visited
       \/ UNCHANGED reservation
    /\ UNCHANGED <<map, records, index_hubs, solution, i, timeline, output>>
    /\ UNCHANGED <<rendererVars, driverVars, validationVars, scanVars>>

\* one iteration of `while heap` of _find_path, or its exit
FindStep ==
    /\ pc = "while"
    /\ heap # {} => HeapMin(heap)[1] <= Horizon
    /\ IF heap = {}
       THEN /\ path' = None
            /\ pc' = "found"
            /\ UNCHANGED <<heap, visited>>
       ELSE LET move == HeapMin(heap)
                popped == heap \ {move}
            IN  IF <<move[3], move[1]>> \in visited
                THEN /\ heap' = popped
                     /\ UNCHANGED <<visited, path, pc>>
                ELSE IF move[3] = map.end_hub.name
                THEN /\ visited' = visited \cup {<<move[3], move[1]>>}
                     /\ heap' = popped
                     /\ path' = Some(move[4])
                     /\ pc' = "found"
                ELSE /\ visited' = visited \cup {<<move[3], move[1]>>}
                     /\ heap' = popped
                                \cup MovePushes(map, records, reservation,
                                                move)
                                \cup WaitPushes(map, index_hubs,
                                                reservation, move)
                     /\ UNCHANGED <<path, pc>>
    /\ UNCHANGED <<map, records, index_hubs, reservation, solution, i,
                   timeline, output>>
    /\ UNCHANGED <<rendererVars, driverVars, validationVars, scanVars>>

\* Commit that also gives the new path to the first drone
Commit_Overwrite ==
    /\ pc = "found"
    /\ IF ~path.none /\ path.stamps # <<>>
       THEN /\ solution' = [id \in DOMAIN solution \cup {DroneId(i), "D1"} |->
                               IF id \in {DroneId(i), "D1"}
                               THEN path.stamps ELSE solution[id]]
            /\ reservation' =
                   CommitFrom(reservation, DroneId(i), path.stamps, 1)
       ELSE UNCHANGED <<solution, reservation>>
    /\ i' = i + 1
    /\ pc' = "for"
    /\ UNCHANGED <<map, records, index_hubs, heap, visited, path, timeline,
                   output>>
    /\ UNCHANGED <<rendererVars, driverVars, validationVars, scanVars>>

\* generate_solution, lines 235-253: keep the path and book its
\* reservations, or skip the drone
Commit ==
    /\ pc = "found"
    /\ IF ~path.none /\ path.stamps # <<>>
       THEN /\ solution' = (DroneId(i) :> path.stamps) @@ solution
            /\ reservation' =
                   CommitFrom(reservation, DroneId(i), path.stamps, 1)
       ELSE UNCHANGED <<solution, reservation>>
    /\ i' = i + 1
    /\ pc' = "for"
    /\ UNCHANGED <<map, records, index_hubs, heap, visited, path, timeline,
                   output>>
    /\ UNCHANGED <<rendererVars, driverVars, validationVars, scanVars>>

\* solver.generate_timeline(solutions); max() of an empty set raises
GenerateTimeline ==
    /\ pc = "return"
    /\ IF DOMAIN solution = {}
       THEN /\ pc' = "ValueError"
            /\ UNCHANGED timeline
       ELSE /\ timeline' = TimelineOf(map, solution)
            /\ pc' = "classic_render"
    /\ UNCHANGED <<solverVars, output>>
    /\ UNCHANGED <<rendererVars, driverVars, validationVars, scanVars>>

\* self.classic_render(solutions, timeline), then the return of execute or
\* the prompt that precedes the visualizer
ClassicRender ==
    /\ pc = "classic_render"
    /\ output' = Printed(map, solution, timeline)
    /\ pc' = IF Len(argv) = 2 THEN "exit" ELSE "visualizer"
    /\ UNCHANGED <<solverVars, timeline>>
    /\ UNCHANGED <<rendererVars, driverVars, validationVars, scanVars>>

Next ==
    \/ InitRegistry \/ ForDrone \/ FindStep \/ Commit
    \/ GenerateTimeline \/ ClassicRender

Spec == Init /\ [][Next]_vars

(***************************************************************************)
(* Validation of src/models.py.  Constructing a MapModel first validates   *)
(* every field, the nested HubModel and ConnectionModel included, and      *)
(* reports the field errors together; validate_map_model, a validator of   *)
(* mode "after", runs only when no field failed.  A diagnostic is          *)
(* modelled by its kind.                                                   *)
(***************************************************************************)
\* keyword arguments of HubModel
HubArguments(name, x, y, zone, max_drones) ==
    [name |-> name, x |-> x, y |-> y, zone |-> zone,
     max_drones |-> max_drones]

\* a validation that succeeded
Valid == [ok |-> TRUE, errors |-> << >>]

\* a validation that raised, with its diagnostics
Invalid(errors) == [ok |-> FALSE, errors |-> errors]

\* construction of a HubModel: the Field constraints, then
\* validate_hub_model
HubErrors(h) ==
    LET fields == (IF h.name = "" THEN <<"name">> ELSE << >>)
                  \o (IF h.zone = "" THEN <<"zone_length">> ELSE << >>)
                  \o (IF h.max_drones >= 0 THEN << >> ELSE <<"max_drones">>)
    IN  IF fields # << >> THEN fields
        ELSE IF h.zone \notin Zones THEN <<"zone">>
        ELSE << >>

\* construction of a ConnectionModel: the Field constraints
ConnectionErrors(c) ==
    (IF c.zone_1 = "" \/ c.zone_2 = "" THEN <<"name">> ELSE << >>)
    \o (IF c.max_link_capacity >= 0 THEN << >>
        ELSE <<"max_link_capacity">>)

RECURSIVE HubsErrors(_, _)
\* the errors of the field hubs, a List[HubModel], from item k
HubsErrors(hubs, k) ==
    IF k > Len(hubs) THEN << >>
    ELSE HubErrors(hubs[k]) \o HubsErrors(hubs, k + 1)

RECURSIVE ConnectionsErrors(_, _)
\* the errors of the field connections, a List[ConnectionModel], from item k
ConnectionsErrors(connections, k) ==
    IF k > Len(connections) THEN << >>
    ELSE ConnectionErrors(connections[k])
             \o ConnectionsErrors(connections, k + 1)

\* the errors of the fields of MapModel
FieldErrors(a) ==
    (IF a.nb_drones >= 1 THEN << >> ELSE <<"nb_drones">>)
    \o HubErrors(a.start_hub)
    \o HubErrors(a.end_hub)
    \o HubsErrors(a.hubs, 1)
    \o ConnectionsErrors(a.connections, 1)

\* tuple(sorted([zone_1, zone_2]))
SortedPair(a, b) == IF StrLess(b, a) THEN <<b, a>> ELSE <<a, b>>

RECURSIVE LoopErrors(_, _, _)
\* `for c in self.connections` of validate_map_model, from connection k
LoopErrors(connections, k, seen_connections) ==
    IF k > Len(connections) THEN << >>
    ELSE LET c == connections[k]
             connection == SortedPair(c.zone_1, c.zone_2)
         IN  IF c.zone_1 = c.zone_2
             THEN <<"self_loop">>
                      \o LoopErrors(connections, k + 1, seen_connections)
             ELSE IF connection \in seen_connections
             THEN <<"duplicate_connection">>
                      \o LoopErrors(connections, k + 1, seen_connections)
             ELSE LoopErrors(connections, k + 1,
                             seen_connections \cup {connection})

\* hub_names of validate_map_model
HubNameList(a) ==
    <<a.start_hub.name, a.end_hub.name>>
        \o [k \in 1..Len(a.hubs) |-> a.hubs[k].name]

\* coordinates of validate_map_model: those of the interior hubs
Coordinates(a) == { <<a.hubs[k].x, a.hubs[k].y>> : k \in 1..Len(a.hubs) }

\* unknown_zones is not empty
UnknownZones(a) ==
    \E k \in 1..Len(a.connections) :
        \/ \A n \in 1..Len(HubNameList(a)) :
               HubNameList(a)[n] # a.connections[k].zone_1
        \/ \A n \in 1..Len(HubNameList(a)) :
               HubNameList(a)[n] # a.connections[k].zone_2

\* MapErrors without the test of end_hub's coordinates against the hubs'
MapErrors_NoEndTest(a) ==
    LET start_c == <<a.start_hub.x, a.start_hub.y>>
        end_c == <<a.end_hub.x, a.end_hub.y>>
        hub_names == HubNameList(a)
    IN  (IF Cardinality(Coordinates(a)) # Len(a.hubs)
         THEN <<"duplicate_coordinates">> ELSE << >>)
        \o (IF start_c \in Coordinates(a)
            THEN <<"start_coordinates">> ELSE << >>)
        \o (IF start_c = end_c
            THEN <<"start_end_coordinates">> ELSE << >>)
        \o (IF Len(hub_names)
                 # Cardinality({ hub_names[n] : n \in 1..Len(hub_names) })
            THEN <<"duplicate_names">> ELSE << >>)
        \o (IF UnknownZones(a) THEN <<"unknown_zones">> ELSE << >>)
        \o LoopErrors(a.connections, 1, {})

\* errors of validate_map_model, in the order the code appends them
MapErrors(a) ==
    LET start_c == <<a.start_hub.x, a.start_hub.y>>
        end_c == <<a.end_hub.x, a.end_hub.y>>
        hub_names == HubNameList(a)
    IN  (IF Cardinality(Coordinates(a)) # Len(a.hubs)
         THEN <<"duplicate_coordinates">> ELSE << >>)
        \o (IF start_c \in Coordinates(a)
            THEN <<"start_coordinates">> ELSE << >>)
        \o (IF end_c \in Coordinates(a)
            THEN <<"end_coordinates">> ELSE << >>)
        \o (IF start_c = end_c
            THEN <<"start_end_coordinates">> ELSE << >>)
        \o (IF Len(hub_names)
                 # Cardinality({ hub_names[n] : n \in 1..Len(hub_names) })
            THEN <<"duplicate_names">> ELSE << >>)
        \o (IF UnknownZones(a) THEN <<"unknown_zones">> ELSE << >>)
        \o LoopErrors(a.connections, 1, {})

\* the lists of at most n elements of the set S
ListsUpTo(S, n) == UNION { [1..k -> S] : k \in 0..n }

\* keyword arguments for an interior hub
InteriorArguments ==
    { HubArguments(name, c[1], c[2], zone, 1) :
        name \in {"A", "B"}, c \in { <<1, 0>>, <<1, 1>> },
        zone \in {"priority", "fast"} }

\* keyword arguments for a connection
ConnectionArguments ==
    { ConnectionModel(p[1], p[2], 1) :
        p \in { <<"S", "A">>, <<"A", "S">>, <<"A", "A">>, <<"A", "X">>,
                <<"S", "B">> } }

\* the keyword arguments the model gives to MapModel
MapArguments ==
    { [nb_drones   |-> n,
       start_hub   |-> HubArguments("S", 0, 0, "normal", 1),
       end_hub     |-> HubArguments(name, c[1], c[2], "normal", cap),
       hubs        |-> hubs,
       connections |-> connections] :
        n \in {0, 1}, name \in {"E", "S"},
        c \in { <<0, 0>>, <<1, 0>>, <<2, 0>> }, cap \in {-1, 1},
        hubs \in ListsUpTo(InteriorArguments, MaxHubs),
        connections \in ListsUpTo(ConnectionArguments, MaxConnections) }

\* a MapModel is about to be constructed from arguments
ValidationInit ==
    /\ arguments \in MapArguments
    /\ report = << >>
    /\ pc = "MapModel"
    /\ map = NoMap
    /\ NewSolver
    /\ NoRenderer
    /\ argv = << >> /\ file = NoMap /\ exit_status = << >>
    /\ NoScan

\* validation of the fields of MapModel, nested models included
ValidateFields ==
    /\ pc = "MapModel"
    /\ IF FieldErrors(arguments) # << >>
       THEN /\ report' = Invalid(FieldErrors(arguments))
            /\ pc' = "ValidationError"
       ELSE /\ pc' = "validate_map_model"
            /\ UNCHANGED report
    /\ UNCHANGED <<arguments, solverVars, timeline, output>>
    /\ UNCHANGED <<rendererVars, driverVars, scanVars>>

\* MapModel.validate_map_model
ValidateMapModel ==
    /\ pc = "validate_map_model"
    /\ IF MapErrors(arguments) # << >>
       THEN /\ report' = Invalid(MapErrors(arguments))
            /\ pc' = "ValidationError"
       ELSE /\ report' = Valid
            /\ pc' = "validated"
    /\ UNCHANGED <<arguments, solverVars, timeline, output>>
    /\ UNCHANGED <<rendererVars, driverVars, scanVars>>

ValidationNext == ValidateFields \/ ValidateMapModel

ValidationSpec == ValidationInit /\ [][ValidationNext]_vars

(***************************************************************************)
(* Construction of a single HubModel, its color included.  A color is the  *)
(* empty list for None and a list of one str otherwise.                    *)
(***************************************************************************)
\* the keys of Color().c
Palette == {"red", "green", "blue", "yellow", "cyan", "white", "reset"}

\* NormalColor that keeps every color as it is given
NormalColor_Keep(color) == color

\* `if self.color not in color.c: self.color = None`
NormalColor(color) ==
    IF color # << >> /\ color[1] \in Palette THEN color ELSE << >>

\* the keyword arguments the model gives to HubModel
HubKeywords ==
    { [name |-> name, x |-> x, y |-> 0, zone |-> zone, color |-> color,
       max_drones |-> max_drones] :
        name \in {"A", ""}, x \in {0, 1},
        zone \in {"normal", "priority", "fast", ""},
        color \in { << >>, <<"red">>, <<"green">>, <<"reset">>,
                    <<"mauve">>, <<"">> },
        max_drones \in {-1, 0, 1} }

\* a HubModel that was accepted, with the fields it ends with
ValidHub(model) == [ok |-> TRUE, errors |-> << >>, model |-> model]

\* a HubModel is about to be constructed from arguments
HubInit ==
    /\ arguments \in HubKeywords
    /\ report = << >>
    /\ pc = "HubModel"
    /\ map = NoMap
    /\ NewSolver
    /\ NoRenderer
    /\ argv = << >> /\ file = NoMap /\ exit_status = << >>
    /\ NoScan

\* construction of a HubModel: the Field constraints, then
\* validate_hub_model
ValidateHub ==
    /\ pc = "HubModel"
    /\ IF HubErrors(arguments) # << >>
       THEN /\ report' = Invalid(HubErrors(arguments))
            /\ pc' = "ValidationError"
       ELSE /\ report' = ValidHub([arguments EXCEPT
                                     !.color = NormalColor(@)])
            /\ pc' = "validated"
    /\ UNCHANGED <<arguments, solverVars, timeline, output>>
    /\ UNCHANGED <<rendererVars, driverVars, scanVars>>

HubNext == ValidateHub

HubSpec == HubInit /\ [][HubNext]_vars

(***************************************************************************)
(* Parser._parse_hub_metadata.  The metadata block is the list of its      *)
(* whitespace-separated tokens, metadata.split(); a token is the list of   *)
(* its pieces, each a word or the sign "=".                                *)
(***************************************************************************)
RECURSIVE SplitFrom(_, _, _)
\* parameter.split("="), from piece k with the parts found so far
SplitFrom(parameter, k, parts) ==
    IF k > Len(parameter) THEN parts
    ELSE IF parameter[k] = "="
    THEN SplitFrom(parameter, k + 1, Append(parts, ""))
    ELSE SplitFrom(parameter, k + 1,
             [parts EXCEPT ![Len(parts)] = @ \o parameter[k]])

\* parameter.split("=")
Split(parameter) == SplitFrom(parameter, 1, <<"">>)

\* valid_param
valid_param == {"zone", "color", "max_drones"}

\* the value _parse_hub_metadata returns: None with the errors it printed,
\* or the list [zone, color, max_drones]
MetadataNone(errors, header) ==
    [none |-> TRUE, value |-> << >>, errors |-> errors, header |-> header]

MetadataSome(parse_metadata) ==
    [none |-> FALSE, value |-> parse_metadata, errors |-> << >>,
     header |-> FALSE]

\* one message appended to errors
HubMetadataError(kind, parameter) == [kind |-> kind, parameter |-> parameter]

RECURSIVE ParseFrom_StopAtFirst(_, _, _, _, _, _)
\* ParseFrom that returns None at the first offending token
ParseFrom_StopAtFirst(params, k, parse_metadata, param_find, errors, invalid_metadata) ==
    IF errors # << >> THEN MetadataNone(errors, ~invalid_metadata)
    ELSE IF k > Len(params) THEN MetadataSome(parse_metadata)
    ELSE LET parameter == params[k]
             param_value == Split(parameter)
         IN  IF Len(param_value) # 2
             THEN ParseFrom_StopAtFirst(params, k + 1, parse_metadata,
                      param_find,
                      Append(errors, HubMetadataError("format", parameter)),
                      invalid_metadata)
             ELSE IF param_value[1] \notin valid_param
             THEN ParseFrom_StopAtFirst(params, k + 1, parse_metadata,
                      param_find,
                      Append(errors, HubMetadataError("unknown", parameter)),
                      invalid_metadata)
             ELSE IF param_value[1] \in param_find
             THEN ParseFrom_StopAtFirst(params, k + 1, parse_metadata,
                      param_find,
                      Append(errors,
                             HubMetadataError("duplicate", parameter)),
                      invalid_metadata)
             ELSE ParseFrom_StopAtFirst(params, k + 1,
                      IF param_value[1] = "zone"
                      THEN [parse_metadata EXCEPT ![1] = param_value[2]]
                      ELSE IF param_value[1] = "color"
                      THEN [parse_metadata EXCEPT ![2] = <<param_value[2]>>]
                      ELSE [parse_metadata EXCEPT ![3] = param_value[2]],
                      param_find \cup {param_value[1]}, errors,
                      invalid_metadata)

RECURSIVE ParseFrom(_, _, _, _, _, _)
\* the loop `for parameter in params` from token k, then the report of the
\* errors or the return of parse_metadata
ParseFrom(params, k, parse_metadata, param_find, errors, invalid_metadata) ==
    IF k > Len(params)
    THEN IF errors # << >> THEN MetadataNone(errors, ~invalid_metadata)
         ELSE MetadataSome(parse_metadata)
    ELSE LET parameter == params[k]
             param_value == Split(parameter)
         IN  IF Len(param_value) # 2
             THEN ParseFrom(params, k + 1, parse_metadata, param_find,
                      Append(errors, HubMetadataError("format", parameter)),
                      invalid_metadata)
             ELSE IF param_value[1] \notin valid_param
             THEN ParseFrom(params, k + 1, parse_metadata, param_find,
                      Append(errors, HubMetadataError("unknown", parameter)),
                      invalid_metadata)
             ELSE IF param_value[1] \in param_find
             THEN ParseFrom(params, k + 1, parse_metadata, param_find,
                      Append(errors,
                             HubMetadataError("duplicate", parameter)),
                      invalid_metadata)
             ELSE ParseFrom(params, k + 1,
                      IF param_value[1] = "zone"
                      THEN [parse_metadata EXCEPT ![1] = param_value[2]]
                      ELSE IF param_value[1] = "color"
                      THEN [parse_metadata EXCEPT ![2] = <<param_value[2]>>]
                      ELSE [parse_metadata EXCEPT ![3] = param_value[2]],
                      param_find \cup {param_value[1]}, errors,
                      invalid_metadata)

\* Parser._parse_hub_metadata(metadata, invalid_metadata); the color is the
\* empty list for None and a list of one str otherwise
ParseHubMetadata(metadata, invalid_metadata) ==
    IF metadata = << >> THEN MetadataSome(<<"normal", << >>, "1">>)
    ELSE ParseFrom(metadata, 1, <<"normal", << >>, "1">>, {}, << >>,
                   invalid_metadata)

\* the tokens the model writes in a metadata block
SampleTokens ==
    { <<"zone", "=", "normal">>, <<"zone", "=", "restricted">>,
      <<"color", "=", "red">>, <<"max_drones", "=", "2">>,
      <<"zone">>, <<"zone", "=">>, <<"=", "2">>,
      <<"name", "=", "A">>, <<"zone", "=", "a", "=", "b">> }

\* the metadata blocks the model parses
MetadataBlocks == ListsUpTo(SampleTokens, MaxTokens)

\* _parse_hub_metadata is about to be called
ParseInit ==
    /\ arguments \in { [metadata |-> metadata,
                        invalid_metadata |-> invalid_metadata] :
                          metadata \in MetadataBlocks,
                          invalid_metadata \in BOOLEAN }
    /\ report = << >>
    /\ pc = "_parse_hub_metadata"
    /\ map = NoMap
    /\ NewSolver
    /\ NoRenderer
    /\ argv = << >> /\ file = NoMap /\ exit_status = << >>
    /\ NoScan

\* the call of _parse_hub_metadata
ParseMetadata ==
    /\ pc = "_parse_hub_metadata"
    /\ report' = ParseHubMetadata(arguments.metadata,
                                  arguments.invalid_metadata)
    /\ pc' = "parsed"
    /\ UNCHANGED <<arguments, solverVars, timeline, output>>
    /\ UNCHANGED <<rendererVars, driverVars, scanVars>>

ParseNext == ParseMetadata

ParseSpec == ParseInit /\ [][ParseNext]_vars

(***************************************************************************)
(* Parser._parse_connection_metadata.  The metadata block is the text      *)
(* between the brackets as the list of its atoms: words, "=" signs and     *)
(* blanks; the empty list is the empty str (or no brackets at all).        *)
(***************************************************************************)
RECURSIVE WordsFrom(_, _, _, _)
\* metadata.split(), from atom k with the current token and the tokens
\* found so far
WordsFrom(metadata, k, current, params) ==
    IF k > Len(metadata)
    THEN IF current = << >> THEN params ELSE Append(params, current)
    ELSE IF metadata[k] = " "
    THEN WordsFrom(metadata, k + 1, << >>,
             IF current = << >> THEN params ELSE Append(params, current))
    ELSE WordsFrom(metadata, k + 1, Append(current, metadata[k]), params)

\* metadata.split()
Words(metadata) == WordsFrom(metadata, 1, << >>, << >>)

\* the value _parse_connection_metadata returns: None with the errors it
\* printed, or the str of the capacity
CapacityNone(errors, header) ==
    [none |-> TRUE, value |-> "", errors |-> errors, header |-> header]

CapacitySome(value) ==
    [none |-> FALSE, value |-> value, errors |-> << >>, header |-> FALSE]

\* Parser._parse_connection_metadata(metadata, invalid_metadata)
ParseConnectionMetadata(metadata, invalid_metadata) ==
    IF metadata = << >> THEN CapacitySome("1")
    ELSE LET params == Words(metadata)
             param_value == Split(params[1])
         IN  IF Len(params) # 1
             THEN CapacityNone(<<"Too many arguments">>, ~invalid_metadata)
             ELSE IF Len(param_value) # 2
             THEN CapacityNone(<<"Invalid format">>, ~invalid_metadata)
             ELSE IF param_value[1] # "max_link_capacity"
             THEN CapacityNone(<<"Unknown key">>, ~invalid_metadata)
             ELSE CapacitySome(param_value[2])

\* the pieces the model writes between the brackets of a connection
SamplePieces ==
    { <<"max_link_capacity", "=", "2">>, <<"max_link_capacity", "=">>,
      <<"max_link_capacity">>, <<"zone", "=", "normal">>,
      <<"max_link_capacity", "=", "2", "=", "3">>, <<" ">> }

RECURSIVE Flat(_, _)
\* the atoms of the pieces from position k on, one after the other
Flat(pieces, k) ==
    IF k > Len(pieces) THEN << >> ELSE pieces[k] \o Flat(pieces, k + 1)

\* the connection metadata blocks the model parses
ConnectionBlocks ==
    { Flat(pieces, 1) : pieces \in ListsUpTo(SamplePieces, MaxTokens) }

\* _parse_connection_metadata is about to be called
ConnectionInit ==
    /\ arguments \in { [metadata |-> metadata,
                        invalid_metadata |-> invalid_metadata] :
                          metadata \in ConnectionBlocks,
                          invalid_metadata \in BOOLEAN }
    /\ report = << >>
    /\ pc = "_parse_connection_metadata"
    /\ map = NoMap
    /\ NewSolver
    /\ NoRenderer
    /\ argv = << >> /\ file = NoMap /\ exit_status = << >>
    /\ NoScan

\* the call of _parse_connection_metadata
ParseConnection ==
    /\ pc = "_parse_connection_metadata"
    /\ report' = ParseConnectionMetadata(arguments.metadata,
                                         arguments.invalid_metadata)
    /\ pc' = "parsed"
    /\ UNCHANGED <<arguments, solverVars, timeline, output>>
    /\ UNCHANGED <<rendererVars, driverVars, scanVars>>

ConnectionNext == ParseConnection

ConnectionSpec == ConnectionInit /\ [][ConnectionNext]_vars

(***************************************************************************)
(* Parser.scan_file_format of src/parser.py.  A line is modelled as the    *)
(* list of its tokens, the white space between them left out: words,       *)
(* numbers and the punctuation ":", "-", "[", "]", "#".  The three         *)
(* patterns are matched token by token.                                    *)
(***************************************************************************)
\* a token matches \d+
IsDigits(token) == token \in {"0", "1", "2"}

\* a token matches [^\s-]+
IsWord(token) == token # "-"

\* the optional group of metadata from token k on: None, or the text
\* between the brackets
Metadata(line, k) == IF Len(line) < k THEN << >> ELSE <<line[k + 1]>>

\* the tokens from k on are nothing, or metadata between brackets
OptionalBrackets(line, k) ==
    \/ Len(line) = k - 1
    \/ Len(line) = k + 2 /\ line[k] = "[" /\ line[k + 2] = "]"

\* re.match(REG_NB, line)
MatchNb(line) ==
    /\ Len(line) = 3
    /\ line[1] = "nb_drones" /\ line[2] = ":" /\ IsDigits(line[3])

\* re.match(REG_HUB, line)
MatchHub(line) ==
    /\ Len(line) >= 5
    /\ line[1] \in {"start_hub", "end_hub", "hub"} /\ line[2] = ":"
    /\ IsWord(line[3]) /\ IsDigits(line[4]) /\ IsDigits(line[5])
    /\ OptionalBrackets(line, 6)

\* re.match(REG_CONNECTION, line)
MatchConnection(line) ==
    /\ Len(line) >= 5
    /\ line[1] = "connection" /\ line[2] = ":"
    /\ IsWord(line[3]) /\ line[4] = "-" /\ IsWord(line[5])
    /\ OptionalBrackets(line, 6)

\* g.groups() of the first pattern of REGEX that matches, in a list; the
\* empty list when none matches
Groups(line) ==
    IF MatchNb(line) THEN << <<line[1], line[3]>> >>
    ELSE IF MatchHub(line)
    THEN << <<line[1], line[3], line[4], line[5], Metadata(line, 6)>> >>
    ELSE IF MatchConnection(line)
    THEN << <<line[1], line[3], line[5], Metadata(line, 6)>> >>
    ELSE << >>

RECURSIVE Significant(_, _)
\* the list lines of scan_file_format: (x + 1, line) for each line that
\* neither starts with "#" nor is blank
Significant(readlines, x) ==
    IF x > Len(readlines) THEN << >>
    ELSE IF readlines[x] = << >> \/ readlines[x][1] = "#"
         THEN Significant(readlines, x + 1)
         ELSE << <<x, readlines[x]>> >> \o Significant(readlines, x + 1)

RECURSIVE ValidRegGroups(_, _)
\* valid_reg_groups after the loop over lines, from line k
ValidRegGroups(sig, k) ==
    IF k > Len(sig) THEN << >>
    ELSE Groups(sig[k][2]) \o ValidRegGroups(sig, k + 1)

RECURSIVE SyntaxErrors(_, _)
\* the errors "Invalid syntax" of the loop over lines, from line k
SyntaxErrors(sig, k) ==
    IF k > Len(sig) THEN << >>
    ELSE IF Groups(sig[k][2]) = << >>
         THEN << <<"syntax", sig[k][1]>> >> \o SyntaxErrors(sig, k + 1)
         ELSE SyntaxErrors(sig, k + 1)

\* nb_drones_lines, start_hub_lines, end_hub_lines: the groups of a keyword
CountOf(groups, keyword) ==
    Cardinality({ k \in 1..Len(groups) : groups[k][1] = keyword })

\* SingletonErrors without the test of end_hub_lines
SingletonErrors_NoEndHub(groups) ==
    (IF CountOf(groups, "nb_drones") # 1
     THEN << <<"nb_drones", CountOf(groups, "nb_drones")>> >> ELSE << >>)
    \o (IF CountOf(groups, "start_hub") # 1
        THEN << <<"start_hub", CountOf(groups, "start_hub")>> >>
        ELSE << >>)

\* the errors "... must appear exactly once (found n)"
SingletonErrors(groups) ==
    (IF CountOf(groups, "nb_drones") # 1
     THEN << <<"nb_drones", CountOf(groups, "nb_drones")>> >> ELSE << >>)
    \o (IF CountOf(groups, "start_hub") # 1
        THEN << <<"start_hub", CountOf(groups, "start_hub")>> >>
        ELSE << >>)
    \o (IF CountOf(groups, "end_hub") # 1
        THEN << <<"end_hub", CountOf(groups, "end_hub")>> >> ELSE << >>)

\* scan_file_format returned None after printing the diagnostics
ScanNone(errors) == [none |-> TRUE, groups |-> << >>, errors |-> errors]

\* scan_file_format returned valid_reg_groups
ScanSome(groups) == [none |-> FALSE, groups |-> groups, errors |-> << >>]

\* what scan_file_format returns and reports for a file
ScanFile(f) ==
    IF ~f.exists THEN ScanNone(<< <<"not_found", 0>> >>)
    ELSE LET sig == Significant(f.readlines, 1)
             errors ==
                 (IF sig[1][2][1] # "nb_drones"
                  THEN << <<"first_line", sig[1][1]>> >> ELSE << >>)
                 \o SyntaxErrors(sig, 1)
                 \o SingletonErrors(ValidRegGroups(sig, 1))
         IN  IF sig = << >> THEN ScanNone(<< <<"empty", 0>> >>)
             ELSE IF errors # << >> THEN ScanNone(errors)
             ELSE ScanSome(ValidRegGroups(sig, 1))

\* the lines the files of the model are made of
SampleLines ==
    { <<"nb_drones", ":", "2">>,
      <<"nb_drones", ":", "two">>,
      <<"start_hub", ":", "S", "0", "0">>,
      <<"end_hub", ":", "E", "2", "0">>,
      <<"hub", ":", "A", "1", "0", "[", "zone=priority", "]">>,
      <<"hub", ":", "A", "1">>,
      <<"connection", ":", "S", "-", "E">>,
      <<"connection", ":", "S", "E">>,
      <<"#", "comment">>,
      << >> }

\* the files of the model, and a path that names no file
Files ==
    { [exists |-> TRUE, readlines |-> ls] :
        ls \in ListsUpTo(SampleLines, MaxLines) }
    \cup { [exists |-> FALSE, readlines |-> << >>] }

\* a Parser is constructed for a file
ScanInit ==
    /\ lines \in Files
    /\ scanned = << >>
    /\ pc = "scan_file_format"
    /\ map = NoMap
    /\ NewSolver
    /\ NoRenderer
    /\ argv = << >> /\ file = NoMap /\ exit_status = << >>
    /\ NoValidation

\* Parser.scan_file_format
ScanFileFormat ==
    /\ pc = "scan_file_format"
    /\ scanned' = ScanFile(lines)
    /\ pc' = "scanned"
    /\ UNCHANGED <<lines, solverVars, timeline, output>>
    /\ UNCHANGED <<rendererVars, driverVars, validationVars>>

ScanNext == ScanFileFormat

ScanSpec == ScanInit /\ [][ScanNext]_vars

(***************************************************************************)
(* Parser.format_data_for_pydantic.  In the lines of these files the text  *)
(* between brackets is one token, the list of its atoms (words, "=" signs  *)
(* and blanks).  self.map is a record of its five keys; a key not yet      *)
(* assigned holds the empty list.                                          *)
(***************************************************************************)
\* self.map once the keys "hub" and "connection" are set to empty lists
EmptyMap ==
    [nb_drones |-> << >>, start_hub |-> << >>, end_hub |-> << >>,
     hub |-> << >>, connection |-> << >>]

\* the dictionary built for a hub record from its group and its metadata
HubDict(group, metadata) ==
    [name |-> group[2], x |-> group[3], y |-> group[4],
     zone |-> metadata[1], color |-> metadata[2], max_drones |-> metadata[3]]

\* the dictionary built for a connection record
ConnectionDict(group, metadata) ==
    [zone_1 |-> group[2], zone_2 |-> group[3], max_link_capacity |-> metadata]

\* the text of the optional group: the empty str for None
GroupText(optional) == IF optional = << >> THEN << >> ELSE optional[1]

\* "hub" in group[0]
IsHubGroup(group) == group[1] \in {"start_hub", "end_hub", "hub"}

\* the state of the loop: self.map, invalid_metadata and what was printed
FormatState(m, invalid_metadata, printed) ==
    [map |-> m, invalid_metadata |-> invalid_metadata, printed |-> printed]

RECURSIVE FormatLoop(_, _, _)
\* the loop `for group in valid_reg_groups`, from group k
FormatLoop(groups, k, st) ==
    IF k > Len(groups) THEN st
    ELSE LET group == groups[k]
         IN  IF group[1] = "nb_drones"
             THEN FormatLoop(groups, k + 1,
                      FormatState([st.map EXCEPT !.nb_drones = <<group[2]>>],
                                  st.invalid_metadata, st.printed))
             ELSE IF IsHubGroup(group)
             THEN LET metadata ==
                          ParseHubMetadata(Words(GroupText(group[5])),
                                           st.invalid_metadata)
                  IN  IF metadata.none
                      THEN FormatLoop(groups, k + 1,
                               FormatState(st.map, TRUE,
                                   Append(st.printed,
                                          [group |-> k,
                                           errors |-> metadata.errors,
                                           header |-> metadata.header])))
                      ELSE IF group[1] = "hub"
                      THEN FormatLoop(groups, k + 1,
                               FormatState(
                                   [st.map EXCEPT !.hub =
                                        Append(@, HubDict(group,
                                                          metadata.value))],
                                   st.invalid_metadata, st.printed))
                      ELSE FormatLoop(groups, k + 1,
                               FormatState(
                                   [st.map EXCEPT ![group[1]] =
                                        <<HubDict(group, metadata.value)>>],
                                   st.invalid_metadata, st.printed))
             ELSE LET metadata ==
                          ParseConnectionMetadata(GroupText(group[4]),
                                                  st.invalid_metadata)
                  IN  IF metadata.none \/ metadata.value = ""
                      THEN FormatLoop(groups, k + 1,
                               FormatState(st.map, TRUE,
                                   Append(st.printed,
                                          [group |-> k,
                                           errors |-> metadata.errors,
                                           header |-> metadata.header])))
                      ELSE FormatLoop(groups, k + 1,
                               FormatState(
                                   [st.map EXCEPT !.connection =
                                        Append(@, ConnectionDict(group,
                                                      metadata.value))],
                                   st.invalid_metadata, st.printed))

\* FormatResult that returns True whatever invalid_metadata is
FormatResult_AlwaysTrue(st) ==
    [ok |-> TRUE, map |-> st.map, printed |-> st.printed]

\* `if invalid_metadata: return False` and `return True`
FormatResult(st) ==
    [ok |-> ~st.invalid_metadata, map |-> st.map, printed |-> st.printed]

\* Parser.format_data_for_pydantic on file f
FormatData(f) ==
    LET valid_reg_groups == ScanFile(f)
    IN  IF valid_reg_groups.none \/ valid_reg_groups.groups = << >>
        THEN [ok |-> FALSE, map |-> << >>, printed |-> << >>]
        ELSE FormatResult(FormatLoop(valid_reg_groups.groups, 1,
                              FormatState(EmptyMap, FALSE, << >>)))

\* the hub and connection lines the files of the model choose from
SampleRecords ==
    { <<"hub", ":", "A", "1", "0", "[", <<"zone", "=", "priority">>, "]">>,
      <<"hub", ":", "A", "1", "0", "[", <<"zone">>, "]">>,
      <<"hub", ":", "B", "1", "1", "[",
        <<"name", "=", "B", " ", "zone", "=", "a", "=", "b">>, "]">>,
      <<"connection", ":", "S", "-", "E">>,
      <<"connection", ":", "S", "-", "E", "[",
        <<"max_link_capacity", "=", "2">>, "]">>,
      <<"connection", ":", "S", "-", "A", "[", <<"zone", "=", "normal">>, "]">>,
      <<"connection", ":", "A", "-", "E", "[", <<" ">>, "]">>,
      <<"connection", ":", "B", "-", "E", "[",
        <<"max_link_capacity", "=">>, "]">> }

\* the first lines of the files of the model
SampleHeaders ==
    { << <<"nb_drones", ":", "2">>, <<"start_hub", ":", "S", "0", "0">>,
         <<"end_hub", ":", "E", "2", "0">> >>,
      << <<"nb_drones", ":", "2">>,
         <<"start_hub", ":", "S", "0", "0", "[", <<"color">>, "]">>,
         <<"end_hub", ":", "E", "2", "0", "[", << >>, "]">> >>,
      << <<"nb_drones", ":", "2">>, <<"end_hub", ":", "E", "2", "0">> >> }

\* the files format_data_for_pydantic is run on
FormatFiles ==
    { [exists |-> TRUE, readlines |-> header \o ls] :
        header \in SampleHeaders, ls \in ListsUpTo(SampleRecords, MaxTokens) }

\* a Parser was constructed on a file and format_data_for_pydantic is about
\* to be called
FormatInit ==
    /\ lines \in FormatFiles
    /\ scanned = << >>
    /\ pc = "format_data_for_pydantic"
    /\ map = NoMap
    /\ NewSolver
    /\ NoRenderer
    /\ argv = << >> /\ file = NoMap /\ exit_status = << >>
    /\ NoValidation

\* Parser.format_data_for_pydantic
FormatDataForPydantic ==
    /\ pc = "format_data_for_pydantic"
    /\ scanned' = FormatData(lines)
    /\ pc' = "formatted"
    /\ UNCHANGED <<lines, solverVars, timeline, output>>
    /\ UNCHANGED <<rendererVars, driverVars, validationVars>>

FormatNext == FormatDataForPydantic

FormatSpec == FormatInit /\ [][FormatNext]_vars

(***************************************************************************)
(* The drivers: Manager.execute of srcs/managing/manager.py, which runs    *)
(* the Solver, and the script main.py, which launches the interfaces.      *)
(* What create_map_data returns for the file named by argv[1] is an input: *)
(* a MapModel, or NoMap when parsing or validation failed.                 *)
(***************************************************************************)
\* the command lines of the model
Argvs ==
    { <<"main.py">>,
      <<"main.py", "map.txt">>,
      <<"main.py", "map.txt", "--visual">>,
      <<"main.py", "map.txt", "--fast">>,
      <<"main.py", "map.txt", "--visual", "--fast">> }

\* the networks create_map_data returns in the runs of the drivers
DriverMaps == TwoHubMaps

\* Manager.validate_args, for an argv of at least two elements
ValidateArgs(args, created) ==
    IF Len(args) = 3
    THEN IF args[3] # "--visual" THEN FALSE
         ELSE created # NoMap
    ELSE IF Len(args) = 2 THEN created # NoMap
    ELSE FALSE

\* a driver is started on a command line
DriverInit ==
    /\ pc \in {"execute", "main"}
    /\ argv \in Argvs
    /\ file \in DriverMaps \cup {NoMap}
    /\ exit_status = << >>
    /\ map = NoMap
    /\ NewSolver
    /\ NoRenderer
    /\ NoValidation
    /\ NoScan

\* Execute with neither the test of validate_args nor that of map_config
Execute_NoValidation ==
    /\ pc = "execute"
    /\ map' = file
    /\ pc' = "init_registry"
    /\ UNCHANGED <<records, index_hubs, reservation, solution, i, heap,
                   visited, path, timeline, output>>
    /\ UNCHANGED <<rendererVars, driverVars, validationVars, scanVars>>

\* Manager.execute up to Solver(self.map_config): self.argv[1] raises
\* IndexError on an argv of one element
Execute ==
    /\ pc = "execute"
    /\ IF Len(argv) < 2
       THEN /\ pc' = "IndexError"
            /\ UNCHANGED map
       ELSE IF ValidateArgs(argv, file) /\ file # NoMap
       THEN /\ map' = file
            /\ pc' = "init_registry"
       ELSE /\ pc' = "exit"
            /\ UNCHANGED map
    /\ UNCHANGED <<records, index_hubs, reservation, solution, i, heap,
                   visited, path, timeline, output>>
    /\ UNCHANGED <<rendererVars, driverVars, validationVars, scanVars>>

\* main.py: exit with status 1 unless there is one argument and a map,
\* then the terminal interface
Main ==
    /\ pc = "main"
    /\ IF Len(argv) # 2 \/ file = NoMap
       THEN /\ exit_status' = <<1>>
            /\ pc' = "sys.exit"
       ELSE /\ pc' = "app.run"
            /\ UNCHANGED exit_status
    /\ UNCHANGED <<solverVars, timeline, output, argv, file>>
    /\ UNCHANGED <<rendererVars, validationVars, scanVars>>

DriverNext == Execute \/ Main \/ Next

DriverSpec == DriverInit /\ [][DriverNext]_vars

(***************************************************************************)
(* Vocabulary of the properties.                                           *)
(***************************************************************************)
\* the turn cost of a zone as the specification states it
ZoneCost(zone) == IF zone = "restricted" THEN 2 ELSE 1

\* the hub a drone is at before stamp j of its path, and the turn it is
\* there: start_hub at turn 0 before the first stamp
HubBefore(stamps, j) == IF j = 1 THEN map.start_hub.name ELSE stamps[j - 1][1]

TurnBefore(stamps, j) == IF j = 1 THEN 0 ELSE stamps[j - 1][2]

\* the drone ids D1..Dn
DroneIds(n) == { DroneId(k) : k \in 1..n }

\* the interior hubs of the network
InteriorHubs == { map.hubs[k] : k \in 1..Len(map.hubs) }

\* the connections of the network
Connections == { map.connections[k] : k \in 1..Len(map.connections) }

\* the unordered pairs the network's connections join
ConnectedPairs == { {c.zone_1, c.zone_2} : c \in Connections }

\* the zone of the hub called name
ZoneOf(name) ==
    IF name = map.start_hub.name THEN map.start_hub.zone
    ELSE IF name = map.end_hub.name THEN map.end_hub.zone
    ELSE (CHOOSE h \in InteriorHubs : h.name = name).zone

\* the drones whose path enters connection c at turn t, in either direction
Entering(c, t) ==
    { id \in DOMAIN solution :
        \E j \in 1..Len(solution[id]) :
            /\ {HubBefore(solution[id], j), solution[id][j][1]}
                   = {c.zone_1, c.zone_2}
            /\ TurnBefore(solution[id], j) = t }

\* the turn of the last stamp of a path
ArrivalTurn(stamps) == stamps[Len(stamps)][2]

\* the network has exactly the connections of PossibleLinks numbered chosen
HasLinks(chosen) ==
    { <<c.zone_1, c.zone_2>> : c \in Connections }
        = { PossibleLinks[k] : k \in chosen }

(***************************************************************************)
(* C1: after generate_solution, for every hub h other than start_hub and   *)
(* end_hub and every turn t, the reservation entry (h.name, t) holds at    *)
(* most h.max_drones drones, max_drones = 0 included.                      *)
(***************************************************************************)
C1_InteriorReservationBound ==
    pc = "return" =>
        \A h \in InteriorHubs : \A key \in DOMAIN reservation :
            key[1] = h.name => Len(reservation[key]) <= h.max_drones

(***************************************************************************)
(* C2: after generate_solution, for every connection e and every turn t,   *)
(* the number of drones whose path enters e at t (either direction, the    *)
(* first move out of start_hub at turn 0 included) is at most              *)
(* e.max_link_capacity.                                                    *)
(***************************************************************************)
C2_EdgeEntryBound ==
    pc = "return" =>
        \A c \in Connections : \A t \in 0..(Horizon + 2) :
            Cardinality(Entering(c, t)) <= c.max_link_capacity

(***************************************************************************)
(* C3: capacity-1 funnel.  With the single connection start_hub-end_hub of *)
(* max_link_capacity 1 and three drones, drone Dk arrives at end_hub at    *)
(* turn k.                                                                 *)
(***************************************************************************)
C3_FunnelArrivals ==
    ( /\ pc = "return"
      /\ HasLinks({6})
      /\ map.connections[1].max_link_capacity = 1
      /\ map.start_hub.zone = "normal" /\ map.end_hub.zone = "normal"
      /\ map.nb_drones = 3 )
    => \A k \in 1..3 :
           /\ DroneId(k) \in DOMAIN solution
           /\ solution[DroneId(k)][Len(solution[DroneId(k)])]
                  = <<map.end_hub.name, k>>

(***************************************************************************)
(* Feasible space-time paths, computed turn by turn from the network and   *)
(* the reservation table as the specification words the two checks: a      *)
(* resource is free at a turn when its reservation list is absent or       *)
(* shorter than its capacity, and start_hub and end_hub are always free.   *)
(***************************************************************************)
Free(location, turn, capacity) ==
    \/ <<location, turn>> \notin DOMAIN reservation
    \/ Len(reservation[<<location, turn>>]) < capacity

Uncapped(name) == name \in {map.start_hub.name, map.end_hub.name}

\* max_drones of the hub called name
CapOf(name) ==
    IF name = map.start_hub.name THEN map.start_hub.max_drones
    ELSE IF name = map.end_hub.name THEN map.end_hub.max_drones
    ELSE (CHOOSE h \in InteriorHubs : h.name = name).max_drones

\* a drone at hub h at turn t may stay there until t + 1
CanWait(h, t) == Uncapped(h) \/ Free(h, t + 1, CapOf(h))

\* a drone at hub g at turn t may take connection c to hub h
CanMove(g, h, c, t) ==
    /\ g # h
    /\ {g, h} = {c.zone_1, c.zone_2}
    /\ ZoneOf(g) # "blocked" /\ ZoneOf(h) # "blocked"
    /\ Uncapped(h) \/ Free(h, t + ZoneCost(ZoneOf(h)), CapOf(h))
    /\ Free(LinkStr(g, h), t, c.max_link_capacity)

SetMax(S) == CHOOSE x \in S : \A y \in S : y <= x

SetMin(S) == CHOOSE x \in S : \A y \in S : x <= y

\* position of the hub called name in AllHubs(map)
HubIndex(name) ==
    CHOOSE k \in 1..Len(AllHubs(map)) : AllHubs(map)[k].name = name

\* layers[t + 1][HubIndex(h)] holds the largest number of moves into
\* priority hubs of a feasible path that is at hub h on turn t, and is
\* empty when no feasible path is there
ScoreAt(layers, t, h) ==
    IF t < 0 THEN {} ELSE layers[t + 1][HubIndex(h)]

\* the hub at the other end of connection c
OtherEnd(c, h) == IF c.zone_1 = h THEN c.zone_2 ELSE c.zone_1

\* the scores with which hub h can be reached on turn Len(layers)
Scores(layers, h) ==
    LET t == Len(layers)
        c == ZoneCost(ZoneOf(h))
        bonus == IF ZoneOf(h) = "priority" THEN 1 ELSE 0
    IN  (IF CanWait(h, t - 1) THEN ScoreAt(layers, t - 1, h) ELSE {})
        \cup
        UNION { { x + bonus : x \in ScoreAt(layers, t - c, OtherEnd(e, h)) } :
                  e \in { e \in Connections :
                            /\ h \in {e.zone_1, e.zone_2}
                            /\ CanMove(OtherEnd(e, h), h, e, t - c) } }

RECURSIVE LayerFrom(_, _)
\* the layer of turn Len(layers), from hub number k on
LayerFrom(layers, k) ==
    IF k > Len(AllHubs(map)) THEN <<>>
    ELSE LET found == Scores(layers, AllHubs(map)[k].name)
         IN  <<IF found = {} THEN {} ELSE {SetMax(found)}>>
                 \o LayerFrom(layers, k + 1)

RECURSIVE FeasibleLayers(_)
\* the layers of turns 0, 1, ... up to the first turn at which end_hub is
\* reached, or up to Horizon
FeasibleLayers(layers) ==
    IF \/ Len(layers) > Horizon
       \/ layers[Len(layers)][HubIndex(map.end_hub.name)] # {}
    THEN layers
    ELSE FeasibleLayers(Append(layers, LayerFrom(layers, 1)))

\* the layers for a drone leaving start_hub at turn 0
Feasible ==
    FeasibleLayers(<< [k \in 1..Len(AllHubs(map)) |->
                         IF k = 1 THEN {0} ELSE {}] >>)

\* the turns at which a feasible path is at end_hub, none later than the
\* first one being listed
ArrivalTurns(layers) ==
    { t \in 0..(Len(layers) - 1) :
        ScoreAt(layers, t, map.end_hub.name) # {} }

\* the number of moves into priority hubs along a path
PriorityMoves(stamps) ==
    Cardinality({ j \in 1..Len(stamps) :
                    /\ stamps[j][1] # HubBefore(stamps, j)
                    /\ ZoneOf(stamps[j][1]) = "priority" })

\* the network is the two-route diamond S-A-E, S-B-E with normal endpoints
\* and interior zones za, zb
Diamond(za, zb) ==
    /\ HasLinks({1, 2, 3, 4})
    /\ map.start_hub.zone = "normal" /\ map.end_hub.zone = "normal"
    /\ ZoneOf("A") = za /\ ZoneOf("B") = zb

(***************************************************************************)
(* C4: the path _find_path returns reaches end_hub at the smallest turn    *)
(* any feasible sequence of waits and moves achieves against the           *)
(* reservation table of that search; with routes S-A-E (A normal) and      *)
(* S-B-E (B restricted) D1 goes through A.                                 *)
(***************************************************************************)
C4_EarliestArrival ==
    (pc = "found" /\ ~path.none) =>
        LET layers == Feasible
        IN  /\ path.stamps # <<>>
            /\ ArrivalTurns(layers) # {}
            /\ ArrivalTurn(path.stamps) = SetMin(ArrivalTurns(layers))
            /\ (Diamond("normal", "restricted") /\ i = 1)
                   => path.stamps = << <<"A", 1>>, <<"E", 2>> >>

\* D2 of the diamond is searched against D1's reservations and arrives at 3
C4_Witness ==
    /\ pc = "found" /\ ~path.none /\ i = 2
    /\ Diamond("normal", "restricted")
    /\ solution[DroneId(1)] = << <<"A", 1>>, <<"E", 2>> >>
    /\ <<"A", 1>> \in DOMAIN reservation
    /\ ArrivalTurn(path.stamps) = 3

(***************************************************************************)
(* C5: among the feasible paths that reach end_hub at the minimal arrival  *)
(* turn, _find_path returns one with the largest number of moves into      *)
(* priority hubs; of two equal-cost routes the one through the priority    *)
(* hub is returned.                                                        *)
(***************************************************************************)
C5_PriorityPreference ==
    (pc = "found" /\ ~path.none) =>
        LET layers == Feasible
        IN  /\ ArrivalTurn(path.stamps) = SetMin(ArrivalTurns(layers))
            /\ {PriorityMoves(path.stamps)}
                   = ScoreAt(layers, ArrivalTurn(path.stamps),
                             map.end_hub.name)
            /\ (Diamond("priority", "normal") /\ i = 1)
                   => path.stamps = << <<"A", 1>>, <<"E", 2>> >>
            /\ (Diamond("normal", "priority") /\ i = 1)
                   => path.stamps = << <<"B", 1>>, <<"E", 2>> >>

\* the priority route wins although its hub name sorts after the other's
C5_Witness ==
    /\ pc = "found" /\ ~path.none /\ i = 1
    /\ Diamond("normal", "priority")
    /\ path.stamps = << <<"B", 1>>, <<"E", 2>> >>

(***************************************************************************)
(* C6: in every path of the solution, two consecutive stamps are a wait    *)
(* (same hub, turn + 1) or a move along a connection of the network whose  *)
(* duration is the zone cost of the hub moved into.                        *)
(***************************************************************************)
IsWait(a, b) == a[1] = b[1] /\ b[2] = a[2] + 1

IsMove(a, b) ==
    /\ a[1] # b[1]
    /\ {a[1], b[1]} \in ConnectedPairs
    /\ b[2] - a[2] = ZoneCost(ZoneOf(b[1]))

C6_PathContinuity ==
    \A id \in DOMAIN solution : \A j \in 2..Len(solution[id]) :
        \/ IsWait(solution[id][j - 1], solution[id][j])
        \/ IsMove(solution[id][j - 1], solution[id][j])

\* a solution holding a wait at an interior hub and a two-turn move
C6_Witness ==
    /\ pc = "return"
    /\ \E id \in DOMAIN solution : \E j \in 2..Len(solution[id]) :
           /\ IsWait(solution[id][j - 1], solution[id][j])
           /\ ~Uncapped(solution[id][j][1])
    /\ \E id \in DOMAIN solution : \E j \in 2..Len(solution[id]) :
           /\ IsMove(solution[id][j - 1], solution[id][j])
           /\ solution[id][j][2] = solution[id][j - 1][2] + 2

(***************************************************************************)
(* C7: every path of the solution starts at start_hub at turn 0: its first *)
(* stamp is (start_hub, 1) or (n, cost of n's zone) for a hub n connected  *)
(* to start_hub; its last stamp is at end_hub.                             *)
(***************************************************************************)
C7_StartAndEnd ==
    \A id \in DOMAIN solution :
        LET stamps == solution[id]
        IN  /\ stamps # <<>>
            /\ \/ stamps[1] = <<map.start_hub.name, 1>>
               \/ /\ {map.start_hub.name, stamps[1][1]} \in ConnectedPairs
                  /\ stamps[1][1] # map.start_hub.name
                  /\ stamps[1][2] = ZoneCost(ZoneOf(stamps[1][1]))
            /\ stamps[Len(stamps)][1] = map.end_hub.name

\* one path begins with a wait, another with a move into a restricted hub
C7_Witness ==
    /\ pc = "return"
    /\ \E id \in DOMAIN solution :
           solution[id][1] = <<map.start_hub.name, 1>>
    /\ \E id \in DOMAIN solution :
           /\ solution[id][1][2] = 2
           /\ ZoneOf(solution[id][1][1]) = "restricted"

(***************************************************************************)
(* C8: no stamp of a path names a blocked hub and the registry holds no    *)
(* move into or out of a blocked hub; when the blocked hub A lies on the   *)
(* otherwise shortest route, every drone is routed through B instead.      *)
(***************************************************************************)
C8_BlockedExclusion ==
    /\ \A id \in DOMAIN solution : \A j \in 1..Len(solution[id]) :
           ZoneOf(solution[id][j][1]) # "blocked"
    /\ \A h \in DOMAIN records : \A k \in 1..Len(records[h]) :
           /\ ZoneOf(h) # "blocked"
           /\ records[h][k].type # "blocked"
           /\ ZoneOf(records[h][k].zone) # "blocked"
    /\ (pc = "return" /\ Diamond("blocked", "restricted")) =>
           \A id \in DroneIds(map.nb_drones) :
               /\ id \in DOMAIN solution
               /\ \E j \in 1..Len(solution[id]) : solution[id][j][1] = "B"

\* two drones routed round the blocked hub
C8_Witness ==
    /\ pc = "return" /\ Diamond("blocked", "restricted")
    /\ map.nb_drones >= 2
    /\ DroneId(2) \in DOMAIN solution
    /\ \E j \in 1..Len(solution[DroneId(2)]) :
           solution[DroneId(2)][j][1] = "B"

(***************************************************************************)
(* Reachability of end_hub through connections between non-blocked hubs.   *)
(***************************************************************************)
RECURSIVE ReachableFrom(_)
ReachableFrom(hubs) ==
    LET more == { h \in HubNames(map) :
                    \E c \in Connections :
                        /\ h \in {c.zone_1, c.zone_2}
                        /\ OtherEnd(c, h) \in hubs
                        /\ ZoneOf(c.zone_1) # "blocked"
                        /\ ZoneOf(c.zone_2) # "blocked" }
    IN  IF more \subseteq hubs THEN hubs ELSE ReachableFrom(hubs \cup more)

EndReachable == map.end_hub.name \in ReachableFrom({map.start_hub.name})

(***************************************************************************)
(* C9: when end_hub cannot be reached from start_hub, each call of         *)
(* _find_path terminates: the frontier empties and the call returns None.  *)
(* No drone is ever committed on such a network, the reservation table     *)
(* stays empty and the availability checks answer alike at every turn, so  *)
(* a frontier that empties at all has emptied once every state of the      *)
(* turns 0..Horizon is consumed.                                           *)
(***************************************************************************)
C9_FrontierEmpties ==
    ( /\ pc = "while"
      /\ ~EndReachable
      /\ reservation = << >>
      /\ \A m \in heap : m[1] > Horizon )
    => heap = {}

(***************************************************************************)
(* C10: two drones on a network with a single start-to-end route whose     *)
(* hubs and connections all have capacity 1.                               *)
(***************************************************************************)
\* the simple routes from start_hub to end_hub over PossibleLinks
Routes ==
    { [links |-> {6}, hubs |-> {}],
      [links |-> {1, 2}, hubs |-> {"A"}],
      [links |-> {3, 4}, hubs |-> {"B"}],
      [links |-> {1, 5, 4}, hubs |-> {"A", "B"}],
      [links |-> {3, 5, 2}, hubs |-> {"A", "B"}] }

\* the connections of the network form route r, all capacities being 1
SingleRoute(r) ==
    /\ HasLinks(r.links)
    /\ \A c \in Connections : c.max_link_capacity = 1
    /\ \A h \in r.hubs \cup {map.start_hub.name, map.end_hub.name} :
           CapOf(h) = 1 /\ ZoneOf(h) # "blocked"

\* C10 as claimed: the solution has a path for D1 and no entry for D2
C10_SecondDroneOmitted ==
    (pc = "return" /\ map.nb_drones = 2 /\ \E r \in Routes : SingleRoute(r))
    => /\ DroneId(1) \in DOMAIN solution
       /\ DroneId(2) \notin DOMAIN solution

\* C10 as amended: the solution has a path for D1 and a path for D2 as
\* well, which ends at end_hub and, when the route has an interior hub,
\* begins with a wait at start_hub
C10_SecondDroneDelayed ==
    \A r \in Routes :
        (pc = "return" /\ map.nb_drones = 2 /\ SingleRoute(r))
        => /\ DroneId(1) \in DOMAIN solution
           /\ DroneId(2) \in DOMAIN solution
           /\ LET stamps == solution[DroneId(2)]
              IN  /\ stamps[Len(stamps)][1] = map.end_hub.name
                  /\ r.hubs # {} => stamps[1] = <<map.start_hub.name, 1>>

\* the run on the route S-A-E has returned, D2 arriving one turn after D1
C10_Witness ==
    /\ pc = "return" /\ map.nb_drones = 2
    /\ SingleRoute([links |-> {1, 2}, hubs |-> {"A"}])
    /\ ZoneOf("A") = "normal"
    /\ solution[DroneId(1)] = << <<"A", 1>>, <<"E", 2>> >>
    /\ solution[DroneId(2)] = << <<"S", 1>>, <<"A", 2>>, <<"E", 3>> >>

(***************************************************************************)
(* Vocabulary of the timeline and of the printed text.                     *)
(***************************************************************************)
\* generate_timeline has returned
TimelineBuilt == pc \in {"classic_render", "exit", "visualizer"}

\* the items of timeline[t] that list drone id
ListedUnder(id, t) ==
    { k \in 1..Len(timeline[t]) :
        \E n \in 1..Len(timeline[t][k][2]) : timeline[t][k][2][n] = id }

\* the keys of timeline[t] that list drone id
KeysListing(id, t) == { timeline[t][k][1] : k \in ListedUnder(id, t) }

\* the largest turn in any path of the solution
TMax == SetMax({ ArrivalTurn(solution[id]) : id \in DOMAIN solution })

(***************************************************************************)
(* C11: in the timeline generate_timeline builds, every drone of the       *)
(* solution is listed under exactly one key of timeline[t] at every turn t *)
(* from 0 to the turn of its last stamp, the turns in flight on a first    *)
(* move out of start_hub towards a restricted hub included.                *)
(***************************************************************************)
C11_OneKeyPerTurn ==
    TimelineBuilt =>
        \A id \in DOMAIN solution :
            \A t \in 0..ArrivalTurn(solution[id]) :
                Cardinality(KeysListing(id, t)) = 1

(***************************************************************************)
(* C12: the timeline has exactly the turns 0..T_max as keys, T_max being   *)
(* the largest turn in any path, and at turn 0 it lists every drone of the *)
(* solution under start_hub's name, whether the drone's path begins with a *)
(* wait or with a move.                                                    *)
(***************************************************************************)
C12_TurnsAndTurnZero ==
    TimelineBuilt =>
        /\ DOMAIN timeline = 0..TMax
        /\ \A id \in DOMAIN solution :
               KeysListing(id, 0) = {map.start_hub.name}

\* a timeline is built for two drones, one whose path begins with a move
\* and one whose path begins with a wait at start_hub
C12_Witness ==
    /\ TimelineBuilt
    /\ TMax > 1
    /\ \E a, b \in DOMAIN solution :
           /\ solution[a][1][1] # map.start_hub.name
           /\ solution[b][1][1] = map.start_hub.name

\* classic_render has printed
Rendered == output # << >>

RECURSIVE SplitLines(_, _, _)
\* the lines of a printed text from piece k on, each as the list of its
\* tokens; line holds the tokens of the line being read
SplitLines(pieces, k, line) ==
    IF k > Len(pieces) THEN IF line = << >> THEN << >> ELSE <<line>>
    ELSE IF pieces[k] = "\n"
         THEN <<line>> \o SplitLines(pieces, k + 1, << >>)
    ELSE IF pieces[k] = " " THEN SplitLines(pieces, k + 1, line)
    ELSE SplitLines(pieces, k + 1, Append(line, pieces[k]))

\* the lines classic_render printed
PrintedLines == SplitLines(output, 1, << >>)

\* the tokens on the printed line of turn t
TokensOn(t) == { PrintedLines[t][n] : n \in 1..Len(PrintedLines[t]) }

\* the places a drone can be: the hubs and the edges of the network
Places ==
    HubNames(map) \cup { LinkStr(c.zone_1, c.zone_2) : c \in Connections }

\* the tokens that name drone id
TokensNaming(id) == { id \o "-" \o place : place \in Places }

\* the drone whose path is stamps is between two hubs at turn t
MidEdge(stamps, t) ==
    /\ t \in 1..ArrivalTurn(stamps)
    /\ \A j \in 1..Len(stamps) : stamps[j][2] # t

\* where the drone whose path is stamps is at turn t: start_hub at turn 0,
\* the hub of the stamp of turn t, the edge it is flying on between two
\* stamps, its last hub once the path is over
Location(stamps, t) ==
    IF t = 0 THEN map.start_hub.name
    ELSE IF t > ArrivalTurn(stamps) THEN stamps[Len(stamps)][1]
    ELSE LET j == CHOOSE n \in 1..Len(stamps) :
                      TurnBefore(stamps, n) < t /\ t <= stamps[n][2]
         IN  IF stamps[j][2] = t THEN stamps[j][1]
             ELSE LinkStr(HubBefore(stamps, j), stamps[j][1])

(***************************************************************************)
(* C13: classic_render puts a token for a drone on the line of turn t only *)
(* when the drone's location at turn t differs from its location at turn   *)
(* t-1: no token on the turns a drone waits at an interior hub, and no     *)
(* token on a turn the drone is mid-edge.                                  *)
(***************************************************************************)
C13_TokenOnlyOnChange ==
    Rendered =>
        \A id \in DOMAIN solution : \A t \in 1..Len(PrintedLines) :
            TokensOn(t) \cap TokensNaming(id) # {}
                => /\ Location(solution[id], t) # Location(solution[id], t - 1)
                   /\ ~MidEdge(solution[id], t)

(***************************************************************************)
(* C14: classic_render prints exactly T_max lines; the k-th line describes *)
(* turn k (turn 0 is not printed), in increasing turn order: its tokens    *)
(* name drones under keys of timeline[k]; and a turn with no token is an   *)
(* empty line, not a skipped one.                                          *)
(***************************************************************************)
C14_OneLinePerTurn ==
    Rendered =>
        /\ Len(PrintedLines) = TMax
        /\ \A k \in 1..Len(PrintedLines) :
               \A token \in TokensOn(k) :
                   \E n \in 1..Len(timeline[k]) :
                       \E m \in 1..Len(timeline[k][n][2]) :
                           token = timeline[k][n][2][m] \o "-"
                                       \o timeline[k][n][1]

\* a text is printed whose first line is empty and whose later lines are not
C14_Witness ==
    /\ Rendered
    /\ TMax >= 3
    /\ PrintedLines[1] = << >>
    /\ PrintedLines[2] # << >>
    /\ PrintedLines[3] # << >>

\* the network of the single hop: one drone, the hubs S and E of max_drones
\* 1, the connection S-E
SingleHop ==
    /\ map.nb_drones = 1
    /\ map.hubs = << >>
    /\ map.start_hub = HubModel("S", "normal", 1)
    /\ map.end_hub = HubModel("E", "normal", 1)
    /\ Len(map.connections) = 1
    /\ map.connections[1].zone_1 = "S"
    /\ map.connections[1].zone_2 = "E"

(***************************************************************************)
(* C15: trivial single hop.  For nb_drones = 1 with the two hubs S and E   *)
(* (max_drones 1 each) joined by the connection S-E, generate_solution     *)
(* returns exactly {D1: [(E, 1)]} and classic_render prints the single     *)
(* line D1-E.                                                              *)
(***************************************************************************)
C15_SingleHop ==
    SingleHop =>
        /\ pc \in {"return", "classic_render", "exit"}
               => solution = ("D1" :> << <<"E", 1>> >>)
        /\ pc = "exit" => output = <<"D1-E", "\n">>

\* the single-hop network has been solved and rendered
C15_Witness == SingleHop /\ pc = "exit" /\ Rendered /\ "D1" \in DOMAIN solution

(***************************************************************************)
(* Vocabulary of the validation: the rules as the specification states     *)
(* them, over the arguments given to MapModel.                             *)
(***************************************************************************)
\* start_hub, end_hub and the interior hubs of the arguments
HubsOf(a) == <<a.start_hub, a.end_hub>> \o a.hubs

\* the validation of the arguments is over
ValidationDone == pc \in {"validated", "ValidationError"}

NamesDistinct(a) ==
    \A j, k \in 1..Len(HubsOf(a)) :
        j # k => HubsOf(a)[j].name # HubsOf(a)[k].name

CoordinatesDistinct(a) ==
    \A j, k \in 1..Len(HubsOf(a)) :
        j # k => <<HubsOf(a)[j].x, HubsOf(a)[j].y>>
                     # <<HubsOf(a)[k].x, HubsOf(a)[k].y>>

StartEndApart(a) ==
    <<a.start_hub.x, a.start_hub.y>> # <<a.end_hub.x, a.end_hub.y>>

EndpointsDefined(a) ==
    \A k \in 1..Len(a.connections) :
        /\ \E j \in 1..Len(HubsOf(a)) :
               HubsOf(a)[j].name = a.connections[k].zone_1
        /\ \E j \in 1..Len(HubsOf(a)) :
               HubsOf(a)[j].name = a.connections[k].zone_2

NoSelfLoop(a) ==
    \A k \in 1..Len(a.connections) :
        a.connections[k].zone_1 # a.connections[k].zone_2

NoDuplicatePair(a) ==
    \A j, k \in 1..Len(a.connections) :
        j # k => {a.connections[j].zone_1, a.connections[j].zone_2}
                     # {a.connections[k].zone_1, a.connections[k].zone_2}

ZonesValid(a) ==
    \A k \in 1..Len(HubsOf(a)) :
        HubsOf(a)[k].zone \in {"normal", "blocked", "restricted", "priority"}

\* the six rules of the claim
SemanticRules(a) ==
    /\ NamesDistinct(a)
    /\ CoordinatesDistinct(a)
    /\ EndpointsDefined(a)
    /\ NoSelfLoop(a)
    /\ NoDuplicatePair(a)
    /\ ZonesValid(a)

\* the constraints the data model puts on single fields: at least one
\* drone, non-empty names and zones, capacities that are not negative
FieldConstraints(a) ==
    /\ a.nb_drones >= 1
    /\ \A k \in 1..Len(HubsOf(a)) :
           /\ HubsOf(a)[k].name # "" /\ HubsOf(a)[k].zone # ""
           /\ HubsOf(a)[k].max_drones >= 0
    /\ \A k \in 1..Len(a.connections) :
           /\ a.connections[k].zone_1 # "" /\ a.connections[k].zone_2 # ""
           /\ a.connections[k].max_link_capacity >= 0

\* the report holds a diagnostic of one of the kinds
Diagnosed(kinds) ==
    \E n \in 1..Len(report.errors) : report.errors[n] \in kinds

(***************************************************************************)
(* C17 as stated: MapModel validation succeeds if and only if hub names    *)
(* are pairwise distinct, hub coordinates are pairwise distinct, both      *)
(* endpoints of every connection are defined hubs, no connection is a      *)
(* self-loop, no two connections join the same unordered pair, and every   *)
(* hub zone is one of normal, blocked, restricted, priority.               *)
(***************************************************************************)
C17_ValidIffRules ==
    ValidationDone => (report.ok <=> SemanticRules(arguments))

(***************************************************************************)
(* C17 amended: MapModel validation succeeds if and only if the six rules  *)
(* hold and the field constraints hold as well (nb_drones >= 1, names and  *)
(* zones not empty, max_drones >= 0, max_link_capacity >= 0).              *)
(***************************************************************************)
C17_ValidIffRulesAndFields ==
    ValidationDone =>
        (report.ok <=> SemanticRules(arguments) /\ FieldConstraints(arguments))

\* a network of two interior hubs and two connections is validated
C17_Witness ==
    /\ pc = "validated"
    /\ report.ok
    /\ Len(arguments.hubs) = 2
    /\ Len(arguments.connections) = 2

(***************************************************************************)
(* C18: when the arguments break several semantic rules at once, the       *)
(* validation fails with one report that holds a diagnostic for every rule *)
(* that is broken: duplicate hub name, duplicate coordinates, start/end    *)
(* coordinate collision, unknown connection endpoint, self-loop, duplicate *)
(* connection, invalid zone.                                               *)
(***************************************************************************)
C18_EveryBrokenRuleReported ==
    (ValidationDone /\ FieldConstraints(arguments)) =>
        /\ ~SemanticRules(arguments) => ~report.ok
        /\ ~NamesDistinct(arguments) => Diagnosed({"duplicate_names"})
        /\ ~CoordinatesDistinct(arguments) =>
               Diagnosed({"duplicate_coordinates", "start_coordinates",
                          "end_coordinates", "start_end_coordinates"})
        /\ ~StartEndApart(arguments) => Diagnosed({"start_end_coordinates"})
        /\ ~EndpointsDefined(arguments) => Diagnosed({"unknown_zones"})
        /\ ~NoSelfLoop(arguments) => Diagnosed({"self_loop"})
        /\ ~NoDuplicatePair(arguments) => Diagnosed({"duplicate_connection"})
        /\ ~ZonesValid(arguments) => Diagnosed({"zone"})

(***************************************************************************)
(* Vocabulary of the scan: the records of the file format among the lines  *)
(* of the model.                                                           *)
(***************************************************************************)
\* the lines that are records of the file format, by their keyword
RecordLines ==
    [ nb_drones  |-> { <<"nb_drones", ":", "2">> },
      start_hub  |-> { <<"start_hub", ":", "S", "0", "0">> },
      end_hub    |-> { <<"end_hub", ":", "E", "2", "0">> },
      hub        |-> { <<"hub", ":", "A", "1", "0",
                         "[", "zone=priority", "]">> },
      connection |-> { <<"connection", ":", "S", "-", "E">> } ]

\* the lines that are records of any keyword
AnyRecord == UNION { RecordLines[k] : k \in DOMAIN RecordLines }

\* the numbers of the significant lines: neither blank nor a comment
SignificantLines ==
    { x \in 1..Len(lines.readlines) :
        lines.readlines[x] \notin { << >>, <<"#", "comment">> } }

\* how many significant lines are records of a keyword
RecordCount(keyword) ==
    Cardinality({ x \in SignificantLines :
                    lines.readlines[x] \in RecordLines[keyword] })

\* the keywords of the records a file must hold exactly once
Singletons == {"nb_drones", "start_hub", "end_hub"}

\* the file satisfies what the claim asks of it
WellFormedFile ==
    /\ SignificantLines # {}
    /\ lines.readlines[SetMin(SignificantLines)] \in RecordLines.nb_drones
    /\ \A keyword \in Singletons : RecordCount(keyword) = 1
    /\ \A x \in SignificantLines : lines.readlines[x] \in AnyRecord

\* scan_file_format reported the diagnostic d
Reported(d) == \E n \in 1..Len(scanned.errors) : scanned.errors[n] = d

\* every unmatched line and every missing or duplicated singleton is
\* reported
AllReported ==
    /\ \A x \in SignificantLines :
           lines.readlines[x] \notin AnyRecord => Reported(<<"syntax", x>>)
    /\ \A keyword \in Singletons :
           RecordCount(keyword) # 1
               => Reported(<<keyword, RecordCount(keyword)>>)

\* scan_file_format has returned for a file that exists
ScanDone == pc = "scanned" /\ lines.exists

(***************************************************************************)
(* C19 as stated: scan_file_format returns the record list only if the     *)
(* first significant line is the nb_drones record, the file holds exactly  *)
(* one nb_drones, one start_hub and one end_hub record and every           *)
(* significant line matches a pattern; in every other case it returns None *)
(* having reported every unmatched line and every missing or duplicated    *)
(* singleton.                                                              *)
(***************************************************************************)
C19_ListOrAllReported ==
    ScanDone =>
        /\ ~scanned.none <=> WellFormedFile
        /\ scanned.none => AllReported

(***************************************************************************)
(* C19 amended: as stated for a file that has a significant line, where a  *)
(* returned list holds one record per significant line; a file with no     *)
(* significant line gets None and the single diagnostic that it is empty.  *)
(***************************************************************************)
C19_ListOrAllReportedOrEmpty ==
    ScanDone =>
        /\ ~scanned.none <=> WellFormedFile
        /\ ~scanned.none =>
               Len(scanned.groups) = Cardinality(SignificantLines)
        /\ (scanned.none /\ SignificantLines # {}) => AllReported
        /\ SignificantLines = {} => scanned.errors = << <<"empty", 0>> >>

\* a file is refused with an unmatched line and two singletons reported
C19_Witness ==
    /\ ScanDone
    /\ scanned.none
    /\ \E x \in SignificantLines : Reported(<<"syntax", x>>)
    /\ Reported(<<"start_hub", 0>>)
    /\ Reported(<<"end_hub", 2>>)

(***************************************************************************)
(* Vocabulary of the drivers.                                              *)
(***************************************************************************)
\* the positions at which a Solver exists or a schedule is being printed
SolverPositions ==
    {"init_registry", "for", "while", "found", "return", "ValueError",
     "classic_render", "visualizer"}

\* the command line names a file, alone or followed by --visual
ArgsWellFormed ==
    \/ Len(argv) = 2
    \/ Len(argv) = 3 /\ argv[3] = "--visual"

(***************************************************************************)
(* C20: when parsing or validation of the input fails, the driver never    *)
(* constructs or runs the Solver and prints no schedule line: in           *)
(* Manager.execute the Solver exists only after validate_args returned     *)
(* True with a MapModel, and main.py exits with status 1 when no map is    *)
(* produced.                                                               *)
(***************************************************************************)
C20_NoSolverWithoutMap ==
    /\ file = NoMap =>
           /\ pc \notin SolverPositions \cup {"app.run"}
           /\ map = NoMap
           /\ NewSolver
    /\ (map # NoMap \/ pc \in SolverPositions) =>
           /\ map = file
           /\ file \in DriverMaps
           /\ ArgsWellFormed
    /\ (pc = "sys.exit" /\ file = NoMap) => exit_status = <<1>>

\* Manager.execute has returned on a file that gave no map
C20_Witness ==
    /\ pc = "exit"
    /\ file = NoMap
    /\ Len(argv) = 2
    /\ map = NoMap
    /\ output = << >>

(***************************************************************************)
(* C21: HubModel validation never fails because of the color.  A color     *)
(* that is not a key of the palette is replaced by None and the hub is     *)
(* accepted; a color that is a key of the palette is kept unchanged.       *)
(***************************************************************************)
C21_ColorNeverFails ==
    ValidationDone =>
        /\ report.ok <=>
               /\ arguments.name # "" /\ arguments.max_drones >= 0
               /\ arguments.zone
                      \in {"normal", "blocked", "restricted", "priority"}
        /\ report.ok =>
               /\ arguments.color \in { <<"red">>, <<"green">>, <<"blue">>,
                                         <<"yellow">>, <<"cyan">>,
                                         <<"white">>, <<"reset">> }
                      => report.model.color = arguments.color
               /\ arguments.color \notin { <<"red">>, <<"green">>, <<"blue">>,
                                            <<"yellow">>, <<"cyan">>,
                                            <<"white">>, <<"reset">> }
                      => report.model.color = << >>

\* a hub given a color that is not in the palette has been accepted
C21_Witness ==
    /\ pc = "validated"
    /\ report.ok
    /\ arguments.color = <<"mauve">>
    /\ report.model.color = << >>

\* drone id is in the reservation entry (location, turn)
Booked(id, location, turn) ==
    /\ <<location, turn>> \in DOMAIN reservation
    /\ \E k \in 1..Len(reservation[<<location, turn>>]) :
           reservation[<<location, turn>>][k] = id

\* the labels of the network's connections
EdgeLabels == { LinkStr(c.zone_1, c.zone_2) : c \in Connections }

(***************************************************************************)
(* C22: once a drone's path is committed, every move of the drone from hub *)
(* h entered at turn t to a different hub h' (its first move out of        *)
(* start_hub included) has the drone's id in the reservation entry         *)
(* (edge_label(h, h'), t); every stamp (h, t) of the path has the id in    *)
(* the entry (h, t); and the drone is in no edge entry other than those of *)
(* its moves, so a wait adds no edge reservation.                          *)
(***************************************************************************)
C22_CommitBooksPath ==
    \A id \in DOMAIN solution :
        /\ \A j \in 1..Len(solution[id]) :
               /\ Booked(id, solution[id][j][1], solution[id][j][2])
               /\ HubBefore(solution[id], j) # solution[id][j][1]
                      => Booked(id,
                                LinkStr(HubBefore(solution[id], j),
                                        solution[id][j][1]),
                                TurnBefore(solution[id], j))
        /\ \A key \in DOMAIN reservation :
               (key[1] \in EdgeLabels /\ Booked(id, key[1], key[2]))
                   => \E j \in 1..Len(solution[id]) :
                          /\ HubBefore(solution[id], j) # solution[id][j][1]
                          /\ key[1] = LinkStr(HubBefore(solution[id], j),
                                              solution[id][j][1])
                          /\ key[2] = TurnBefore(solution[id], j)

(***************************************************************************)
(* C23: _find_path leaves the reservation table unchanged, whether it      *)
(* returns a path or None; the table changes only in the commit step of    *)
(* generate_solution, which runs once the drone's complete path has been   *)
(* returned and stored in solution.                                        *)
(***************************************************************************)
C23_OnlyCommitBooks ==
    [][ /\ pc = "while" => reservation' = reservation
        /\ reservation' # reservation =>
               /\ pc = "found" /\ ~path.none
               /\ solution' = (DroneId(i) :> path.stamps) @@ solution
               /\ pc' = "for" ]_vars

\* _find_path has returned the second drone's path while the table holds
\* the first drone's reservations only
C23_Witness ==
    /\ pc = "found" /\ ~path.none /\ path.stamps # << >>
    /\ i = 2
    /\ DOMAIN reservation # {}
    /\ \A key \in DOMAIN reservation : reservation[key] = <<"D1">>

(***************************************************************************)
(* generate_solution as a function of the map, used to compare the runs on *)
(* two maps.  The search is cut at Horizon as FindStep is.                 *)
(***************************************************************************)
RECURSIVE FindPath(_, _, _, _, _, _)
\* Solver._find_path from a given heap and visited set
FindPath(m, recs, idx, res, hp, vis) ==
    IF hp = {} THEN None
    ELSE LET move == HeapMin(hp)
             popped == hp \ {move}
         IN  IF move[1] > Horizon THEN None
             ELSE IF <<move[3], move[1]>> \in vis
             THEN FindPath(m, recs, idx, res, popped, vis)
             ELSE IF move[3] = m.end_hub.name THEN Some(move[4])
             ELSE FindPath(m, recs, idx, res,
                      popped \cup MovePushes(m, recs, res, move)
                             \cup WaitPushes(m, idx, res, move),
                      vis \cup {<<move[3], move[1]>>})

RECURSIVE GenerateFrom(_, _, _, _)
\* the loop `for i in range(1, nb_drones + 1)` of generate_solution, from
\* drone k with reservation table res and solution sol
GenerateFrom(m, k, res, sol) ==
    IF k > m.nb_drones THEN sol
    ELSE LET found == FindPath(m, Registry(m), IndexHubs(m), res,
                          { <<0, 0, m.start_hub.name, <<>> >> }, {})
         IN  IF ~found.none /\ found.stamps # <<>>
             THEN GenerateFrom(m, k + 1,
                      CommitFrom(res, DroneId(k), found.stamps, 1),
                      (DroneId(k) :> found.stamps) @@ sol)
             ELSE GenerateFrom(m, k + 1, res, sol)

\* the dictionary generate_solution returns on map m
GenerateSolution(m) == GenerateFrom(m, 1, << >>, << >>)

\* the map with one drone fewer, on the same hubs and connections
OneDroneFewer == [map EXCEPT !.nb_drones = @ - 1]

(***************************************************************************)
(* C24: drones are searched and committed strictly in the order D1, D2,    *)
(* ..., a step adds to solution the path of the drone being searched and   *)
(* nothing else, a committed path is never altered, and the paths of       *)
(* D1..Dn returned with nb_drones = n + 1 are those returned with          *)
(* nb_drones = n on the same hubs and connections.                         *)
(***************************************************************************)
C24_CommittedPathsStable ==
    [][ /\ \A id \in DOMAIN solution :
               id \in DOMAIN solution' /\ solution'[id] = solution[id]
        /\ solution' # solution =>
               /\ DOMAIN solution' = DOMAIN solution \cup {DroneId(i)}
               /\ DOMAIN solution \subseteq DroneIds(i - 1)
               /\ i' = i + 1
        /\ (pc = "return" /\ map.nb_drones >= 2) =>
               \A id \in DroneIds(map.nb_drones - 1) :
                   /\ id \in DOMAIN solution
                          <=> id \in DOMAIN GenerateSolution(OneDroneFewer)
                   /\ id \in DOMAIN solution
                          => solution[id]
                                 = GenerateSolution(OneDroneFewer)[id] ]_vars

\* three drones were routed and the third did not get the second's path
C24_Witness ==
    /\ pc = "return"
    /\ map.nb_drones = 3
    /\ DOMAIN solution = {"D1", "D2", "D3"}
    /\ solution["D3"] # solution["D2"]
    /\ solution["D2"] # solution["D1"]
    /\ GenerateSolution(OneDroneFewer)
           = [id \in {"D1", "D2"} |-> solution[id]]

\* the positions of the registry entries at hub u that target hub v
EntriesAt(u, v) == { k \in 1..Len(records[u]) : records[u][k].zone = v }

\* the registry holds exactly one entry at u targeting v, and it carries
\* v's zone, v's max_drones, connection c's capacity and the cost of v's zone
OneEntry(u, v, c) ==
    /\ Cardinality(EntriesAt(u, v)) = 1
    /\ \A k \in EntriesAt(u, v) :
           /\ records[u][k].type = ZoneOf(v)
           /\ records[u][k].capacity = CapOf(v)
           /\ records[u][k].link_capacity = c.max_link_capacity
           /\ ZoneOf(v) \in {"normal", "priority"} => records[u][k].cost = 1
           /\ ZoneOf(v) = "restricted" => records[u][k].cost = 2

(***************************************************************************)
(* C25: after init_registry, for every connection (u, v) neither of whose  *)
(* hubs is blocked the registry holds exactly one entry at u targeting v   *)
(* and one at v targeting u, each carrying the target's zone, the target's *)
(* max_drones, the connection's max_link_capacity and a cost fixed by the  *)
(* target's zone (normal 1, priority 1, restricted 2); a connection with a *)
(* blocked endpoint contributes no entry in either direction, and the      *)
(* registry holds no other entry.                                          *)
(***************************************************************************)
C25_RegistryEntries ==
    pc # "init_registry" =>
        /\ \A c \in Connections :
               IF ZoneOf(c.zone_1) = "blocked" \/ ZoneOf(c.zone_2) = "blocked"
               THEN /\ EntriesAt(c.zone_1, c.zone_2) = {}
                    /\ EntriesAt(c.zone_2, c.zone_1) = {}
               ELSE /\ OneEntry(c.zone_1, c.zone_2, c)
                    /\ OneEntry(c.zone_2, c.zone_1, c)
        /\ \A u \in DOMAIN records : \A k \in 1..Len(records[u]) :
               {u, records[u][k].zone} \in ConnectedPairs

\* the registry was built from a network that has a connection to a
\* blocked hub, a connection into a restricted hub and one of capacity 0
C25_Witness ==
    /\ pc = "for"
    /\ \E c \in Connections : ZoneOf(c.zone_1) = "blocked"
    /\ \E c \in Connections :
           /\ ZoneOf(c.zone_1) = "normal" /\ ZoneOf(c.zone_2) = "restricted"
           /\ c.max_link_capacity = 0
           /\ EntriesAt(c.zone_1, c.zone_2) # {}

\* the entry _find_path is expanding in this step: popped, not visited and
\* not at end_hub
Expanding(move) ==
    /\ pc = "while" /\ heap # {}
    /\ move = HeapMin(heap)
    /\ <<move[3], move[1]>> \notin visited
    /\ move[3] # map.end_hub.name

\* the entry for going from the hub of move to hub h
MoveEntry(move, h) ==
    << move[1] + ZoneCost(ZoneOf(h)),
       IF ZoneOf(h) = "priority" THEN move[2] - 1 ELSE move[2],
       h,
       Append(move[4], <<h, move[1] + ZoneCost(ZoneOf(h))>>) >>

\* the entry for waiting one turn at the hub of move
WaitEntry(move) ==
    << move[1] + 1, move[2], move[3],
       Append(move[4], <<move[3], move[1] + 1>>) >>

\* the connections that touch start_hub or end_hub
EndpointConnections ==
    { c \in Connections : Uncapped(c.zone_1) \/ Uncapped(c.zone_2) }

\* in this step no move into, and no wait at, start_hub or end_hub is
\* refused for the node's sake
EndpointsNeverRefuse ==
    \A move \in heap : Expanding(move) =>
        /\ Uncapped(move[3]) => WaitEntry(move) \in heap'
        /\ \A c \in EndpointConnections : \A h \in {c.zone_1, c.zone_2} :
               ( /\ Uncapped(h) /\ h # move[3]
                 /\ move[3] \in {c.zone_1, c.zone_2}
                 /\ ZoneOf(h) # "blocked" /\ ZoneOf(move[3]) # "blocked"
                 /\ Free(LinkStr(move[3], h), move[1], c.max_link_capacity) )
               => MoveEntry(move, h) \in heap'

(***************************************************************************)
(* C26: node capacity is never a reason to refuse a move into, or a wait   *)
(* at, start_hub or end_hub, whatever their max_drones and however many    *)
(* drones are reserved there at that turn; edge capacity is still enforced *)
(* on the connections that touch start_hub or end_hub: no more than        *)
(* max_link_capacity drones enter such a connection at the same turn.      *)
(***************************************************************************)
C26_EndpointsUncappedEdgesCapped ==
    [][ /\ EndpointsNeverRefuse
        /\ pc = "return" =>
               \A c \in EndpointConnections : \A t \in 0..(Horizon + 2) :
                   Cardinality(Entering(c, t)) <= c.max_link_capacity ]_vars

(***************************************************************************)
(* C27: an interior hub whose max_drones is 0 is never used: no path of    *)
(* the solution has a stamp at such a hub.                                 *)
(***************************************************************************)
C27_ZeroCapacityUnused ==
    \A id \in DOMAIN solution : \A j \in 1..Len(solution[id]) :
        \A h \in InteriorHubs :
            h.max_drones = 0 => solution[id][j][1] # h.name

\* the drones in use on connection c at turn t: they entered it at some
\* turn <= t and have not yet arrived
InUse(c, t) ==
    { id \in DOMAIN solution :
        \E j \in 1..Len(solution[id]) :
            /\ {HubBefore(solution[id], j), solution[id][j][1]}
                   = {c.zone_1, c.zone_2}
            /\ TurnBefore(solution[id], j) <= t
            /\ t < solution[id][j][2] }

(***************************************************************************)
(* C28: at every turn t the number of drones the schedule has in use on a  *)
(* connection (entered at some turn <= t and not yet arrived) is at most   *)
(* the connection's max_link_capacity, and so is the number of drones      *)
(* listed under the connection's edge label in timeline[t].                *)
(***************************************************************************)
C28_ConcurrentTraversals ==
    /\ pc = "return" =>
           \A c \in Connections : \A t \in 0..(Horizon + 2) :
               Cardinality(InUse(c, t)) <= c.max_link_capacity
    /\ TimelineBuilt =>
           \A c \in Connections : \A t \in DOMAIN timeline :
               \A k \in 1..Len(timeline[t]) :
                   timeline[t][k][1] = LinkStr(c.zone_1, c.zone_2)
                       => Len(timeline[t][k][2]) <= c.max_link_capacity

(***************************************************************************)
(* The search with ties resolved in insertion order: the frontier is the   *)
(* list of its entries in the order they were pushed, and the entry popped *)
(* is the earliest pushed among those of least (turn, priority).           *)
(***************************************************************************)
\* entry a is ahead of entry b on turn and priority score
Ahead(a, b) == a[1] < b[1] \/ (a[1] = b[1] /\ a[2] < b[2])

\* the position popped from the frontier list
FirstLeast(frontier) ==
    CHOOSE k \in 1..Len(frontier) :
        /\ \A n \in 1..Len(frontier) : ~Ahead(frontier[n], frontier[k])
        /\ \A n \in 1..(k - 1) : Ahead(frontier[k], frontier[n])

\* the list without position k
Without(frontier, k) ==
    SubSeq(frontier, 1, k - 1) \o SubSeq(frontier, k + 1, Len(frontier))

RECURSIVE MovesInOrder(_, _)
\* the moves pushed when move is expanded, in the order of records from
\* position k on
MovesInOrder(move, k) ==
    IF k > Len(records[move[3]]) THEN << >>
    ELSE LET d == records[move[3]][k]
             entry == << move[1] + d.cost,
                         IF d.type = "priority" THEN move[2] - 1 ELSE move[2],
                         d.zone,
                         Append(move[4], <<d.zone, move[1] + d.cost>>) >>
         IN  IF entry \in MovePushes(map, records, reservation, move)
             THEN <<entry>> \o MovesInOrder(move, k + 1)
             ELSE MovesInOrder(move, k + 1)

\* everything pushed when move is expanded, the wait last
PushedInOrder(move) ==
    MovesInOrder(move, 1)
        \o IF WaitPushes(map, index_hubs, reservation, move) = {}
           THEN << >>
           ELSE << CHOOSE e \in WaitPushes(map, index_hubs, reservation,
                                           move) : TRUE >>

RECURSIVE FirstDiscovered(_, _)
\* the path returned when ties are resolved in insertion order
FirstDiscovered(frontier, seen) ==
    IF frontier = << >> THEN None
    ELSE LET k == FirstLeast(frontier)
             move == frontier[k]
             rest == Without(frontier, k)
         IN  IF move[1] > Horizon THEN None
             ELSE IF <<move[3], move[1]>> \in seen
             THEN FirstDiscovered(rest, seen)
             ELSE IF move[3] = map.end_hub.name THEN Some(move[4])
             ELSE FirstDiscovered(rest \o PushedInOrder(move),
                                  seen \cup {<<move[3], move[1]>>})

(***************************************************************************)
(* C29: frontier states tied on turn and priority score are popped in the  *)
(* order in which they were pushed, so the path _find_path returns is the  *)
(* one the search with insertion-order ties discovers first.               *)
(***************************************************************************)
C29_TiesInInsertionOrder ==
    (pc = "found" /\ ~path.none) =>
        path = FirstDiscovered(<< <<0, 0, map.start_hub.name, <<>> >> >>, {})

\* the number of "=" signs in a token
EqualSigns(token) == Cardinality({ k \in 1..Len(token) : token[k] = "=" })

\* the token reads key=value with one of the three keys
KeyValue(token, key) ==
    /\ EqualSigns(token) = 1
    /\ \/ token = <<key, "=">>
       \/ Len(token) = 3 /\ token[1] = key /\ token[2] = "="

\* the value of a token that reads key=value
ValueIn(token) == IF Len(token) = 3 THEN token[3] ELSE ""

\* token k of the block is offending: not exactly key=value, a key other
\* than zone, color and max_drones, or a key already given
Offending(block, k) ==
    \/ \A key \in {"zone", "color", "max_drones"} : ~KeyValue(block[k], key)
    \/ \E key \in {"zone", "color", "max_drones"} :
           /\ KeyValue(block[k], key)
           /\ \E n \in 1..(k - 1) : KeyValue(block[n], key)

\* the positions of the block that give key
Giving(block, key) == { k \in 1..Len(block) : KeyValue(block[k], key) }

RECURSIVE OffendingTokens(_, _)
\* the offending tokens of the block from position k on, in order
OffendingTokens(block, k) ==
    IF k > Len(block) THEN << >>
    ELSE IF Offending(block, k)
    THEN <<block[k]>> \o OffendingTokens(block, k + 1)
    ELSE OffendingTokens(block, k + 1)

Inked(block) == { k \in 1..Len(block) : block[k] # " " }

\* the block holds exactly one token: its atoms other than blanks are
\* next to each other
OnePair(block) ==
    /\ Inked(block) # {}
    /\ \A k \in SetMin(Inked(block))..SetMax(Inked(block)) : k \in Inked(block)

\* the one token of the block reads max_link_capacity=<value>
CapacityPair(block) ==
    /\ OnePair(block)
    /\ Cardinality({ k \in Inked(block) : block[k] = "=" }) = 1
    /\ block[SetMin(Inked(block))] = "max_link_capacity"
    /\ SetMin(Inked(block)) + 1 \in Inked(block)
    /\ block[SetMin(Inked(block)) + 1] = "="

RECURSIVE Glued(_, _, _)
\* the atoms k to n of the block written as one str
Glued(block, k, n) ==
    IF k > n THEN "" ELSE block[k] \o Glued(block, k + 1, n)

\* the value of a block that reads max_link_capacity=<value>
CapacityIn(block) ==
    Glued(block, SetMin(Inked(block)) + 2, SetMax(Inked(block)))

(***************************************************************************)
(* C31: _parse_connection_metadata returns the default "1" when the block  *)
(* is absent or empty (it holds no pair), returns the given value when the *)
(* block is exactly one pair max_link_capacity=<value>, and returns None   *)
(* with an error reported when the block has more than one pair, a         *)
(* malformed pair or any other key.                                        *)
(***************************************************************************)
C31_ConnectionMetadata ==
    pc = "parsed" =>
        LET block == arguments.metadata
        IN  /\ Inked(block) = {} => (~report.none /\ report.value = "1")
            /\ CapacityPair(block) =>
                   (~report.none /\ report.value = CapacityIn(block))
            /\ (Inked(block) # {} /\ ~CapacityPair(block)) =>
                   (report.none /\ report.errors # << >>)

\* the groups scan_file_format returns for the file being formatted
ScannedGroups == ScanFile(lines).groups

\* group k is a hub or connection record whose metadata the metadata
\* parser refuses
InvalidMetadata(k) ==
    LET group == ScannedGroups[k]
    IN  IF group[1] = "nb_drones" THEN FALSE
        ELSE IF group[1] = "connection"
        THEN ParseConnectionMetadata(GroupText(group[4]), FALSE).none
        ELSE ParseHubMetadata(Words(GroupText(group[5])), FALSE).none

\* the number of hub and connection dictionaries in self.map
RecordsKept ==
    Len(scanned.map.hub) + Len(scanned.map.connection)
        + Len(scanned.map.start_hub) + Len(scanned.map.end_hub)

C34_ArrivalsInDroneOrder ==
    \A a \in 1..map.nb_drones : \A b \in 1..map.nb_drones :
        (a < b /\ DroneId(a) \in DOMAIN solution
               /\ DroneId(b) \in DOMAIN solution)
        => ArrivalTurn(solution[DroneId(a)])
               <= ArrivalTurn(solution[DroneId(b)])

\* the third drone arrived later than the first
C34_Witness ==
    /\ pc = "return"
    /\ {"D1", "D3"} \subseteq DOMAIN solution
    /\ ArrivalTurn(solution["D1"]) < ArrivalTurn(solution["D3"])

(***************************************************************************)
(* C35: in every path the turns of the stamps are strictly increasing and  *)
(* end_hub appears only as the last stamp; and in the reservation table no *)
(* drone id occurs more than once in any single entry (key, turn).         *)
(***************************************************************************)
C35_StampsIncreaseIdsOnce ==
    /\ \A id \in DOMAIN solution :
           /\ \A j \in 1..(Len(solution[id]) - 1) :
                  /\ solution[id][j][2] < solution[id][j + 1][2]
                  /\ solution[id][j][1] # map.end_hub.name
           /\ solution[id][Len(solution[id])][1] = map.end_hub.name
    /\ \A key \in DOMAIN reservation :
           \A a \in 1..Len(reservation[key]) :
               \A b \in 1..Len(reservation[key]) :
                   reservation[key][a] = reservation[key][b] => a = b

\* two drones share a reservation entry, and a drone of two stamps or more
\* holds entries under three different keys
C35_Witness ==
    /\ pc = "return"
    /\ \E key \in DOMAIN reservation : Len(reservation[key]) >= 2
    /\ \E id \in DOMAIN solution :
           /\ Len(solution[id]) >= 2
           /\ Cardinality({ key \in DOMAIN reservation :
                              Booked(id, key[1], key[2]) }) >= 3

(***************************************************************************)
(* srcs/solver/solver.py: the Solver the visualizer constructs.  Its       *)
(* methods are written out from that file; the heap, the dictionaries and  *)
(* the edge labels are the ones of the terminal scheduler.  A path is the  *)
(* record [none, stamps]: _find_path returns None by falling off its loop. *)
(***************************************************************************)
RECURSIVE SolverRecords(_, _, _)
\* solver.py init_registry: the loop over self.map.connections, from k
SolverRecords(m, k, recs) ==
    IF k > Len(m.connections) THEN recs
    ELSE LET zone_1 == m.connections[k].zone_1
             zone_2 == m.connections[k].zone_2
             max_link_capacity == m.connections[k].max_link_capacity
             index_of == [ name \in HubNames(m) |->
                             AllHubs(m)[CHOOSE n \in 1..Len(AllHubs(m)) :
                                            AllHubs(m)[n].name = name] ]
             zone_type_1 == index_of[zone_1].zone
             zone_type_2 == index_of[zone_2].zone
             cost == [z \in Zones \ {"blocked"} |->
                        IF z = "restricted" THEN 2 ELSE 1]
             package_1 == [zone          |-> zone_2,
                           type          |-> zone_type_2,
                           cost          |-> cost[zone_type_2],
                           capacity      |-> index_of[zone_2].max_drones,
                           link_capacity |-> max_link_capacity]
             package_2 == [zone          |-> zone_1,
                           type          |-> zone_type_1,
                           cost          |-> cost[zone_type_1],
                           capacity      |-> index_of[zone_1].max_drones,
                           link_capacity |-> max_link_capacity]
         IN  IF zone_type_1 = "blocked" \/ zone_type_2 = "blocked"
             THEN SolverRecords(m, k + 1, recs)
             ELSE SolverRecords(m, k + 1,
                      [recs EXCEPT ![zone_1] = Append(@, package_1),
                                   ![zone_2] = Append(@, package_2)])

\* solver.py _is_available
SolverIsAvailable(res, location, turn, capacity, is_endpoint) ==
    \/ is_endpoint
    \/ <<location, turn>> \notin DOMAIN res
    \/ Len(res[<<location, turn>>]) < capacity

\* SolverBookReservation that replaces the entry of a key already booked
SolverBookReservation_Replace(res, id, location, turn) ==
    IF <<location, turn>> \in DOMAIN res
    THEN [res EXCEPT ![<<location, turn>>] = <<id>>]
    ELSE (<<location, turn>> :> <<id>>) @@ res

\* solver.py _book_reservation
SolverBookReservation(res, id, location, turn) ==
    IF <<location, turn>> \in DOMAIN res
    THEN [res EXCEPT ![<<location, turn>>] = Append(@, id)]
    ELSE (<<location, turn>> :> <<id>>) @@ res

\* solver.py _find_path: what one iteration pushes after popping move
SolverPushes(m, recs, res, move) ==
    LET start_hub == m.start_hub.name
        end_hub == m.end_hub.name
        open == { k \in 1..Len(recs[move[3]]) :
                    LET d == recs[move[3]][k]
                    IN  /\ SolverIsAvailable(res, d.zone, move[1] + d.cost,
                               d.capacity,
                               d.zone = start_hub \/ d.zone = end_hub)
                        /\ SolverIsAvailable(res, LinkStr(move[3], d.zone),
                               move[1], d.link_capacity, FALSE) }
        moves == { LET d == recs[move[3]][k]
                   IN  << move[1] + d.cost,
                          IF d.type = "priority" THEN move[2] - 1
                                                 ELSE move[2],
                          d.zone,
                          Append(move[4], <<d.zone, move[1] + d.cost>>) >> :
                     k \in open }
        max_drones == (CHOOSE h \in { AllHubs(m)[n] : n \in 1..Len(AllHubs(m)) } :
                           h.name = move[3]).max_drones
        waits == IF SolverIsAvailable(res, move[3], move[1] + 1, max_drones,
                        move[3] = start_hub \/ move[3] = end_hub)
                 THEN { << move[1] + 1, move[2], move[3],
                           Append(move[4], <<move[3], move[1] + 1>>) >> }
                 ELSE {}
    IN  moves \cup waits

RECURSIVE SolverFindPath(_, _, _, _, _)
\* solver.py _find_path from a given heap and visited set; the search is
\* cut at Horizon
SolverFindPath(m, recs, res, hp, vis) ==
    IF hp = {} THEN None
    ELSE LET move == HeapMin(hp)
         IN  IF move[1] > Horizon THEN None
             ELSE IF <<move[3], move[1]>> \in vis
             THEN SolverFindPath(m, recs, res, hp \ {move}, vis)
             ELSE IF move[3] = m.end_hub.name THEN Some(move[4])
             ELSE SolverFindPath(m, recs, res,
                      (hp \ {move}) \cup SolverPushes(m, recs, res, move),
                      vis \cup {<<move[3], move[1]>>})

RECURSIVE SolverBook(_, _, _, _)
\* solver.py _generate_solution: `for i in range(len(solution[id]))`
SolverBook(res, id, stamps, k) ==
    IF k > Len(stamps) THEN res
    ELSE LET linked ==
                 IF k + 1 <= Len(stamps) /\ stamps[k][1] # stamps[k + 1][1]
                 THEN SolverBookReservation(res, id,
                          LinkStr(stamps[k][1], stamps[k + 1][1]),
                          stamps[k][2])
                 ELSE res
         IN  SolverBook(SolverBookReservation(linked, id, stamps[k][1],
                                              stamps[k][2]),
                        id, stamps, k + 1)

RECURSIVE SolverGenerate(_, _, _, _)
\* solver.py _generate_solution: the loop over the drones from drone k,
\* giving the solution returned and self.reservation; solution[id] is
\* assigned whatever _find_path returned
SolverGenerate(m, k, res, sol) ==
    IF k > m.nb_drones THEN [solution |-> sol, reservation |-> res]
    ELSE LET found == SolverFindPath(m,
                          SolverRecords(m, 1, [n \in HubNames(m) |-> <<>>]),
                          res, { <<0, 0, m.start_hub.name, <<>> >> }, {})
         IN  IF found.none
             THEN SolverGenerate(m, k + 1, res, (DroneId(k) :> found) @@ sol)
             ELSE SolverGenerate(m, k + 1,
                      SolverBook(res, DroneId(k), found.stamps, 1),
                      (DroneId(k) :> found) @@ sol)


\* solver.py _generate_timeline: max(nb_turn)
SolverMaxTurn(solutions) ==
    LET nb_turn == UNION { { solutions[key].stamps[n][2] :
                               n \in 1..Len(solutions[key].stamps) } :
                             key \in DOMAIN solutions }
    IN  CHOOSE t \in nb_turn : \A u \in nb_turn : u <= t

RECURSIVE SolverLink(_, _, _, _, _, _)
\* solver.py _generate_timeline: `for j in range(1, diff)`
SolverLink(tl, key, link, at, j, diff) ==
    IF j >= diff THEN tl
    ELSE SolverLink([tl EXCEPT ![at + j] = DictAppend(@, link, key)],
                    key, link, at, j + 1, diff)

RECURSIVE SolverStamps(_, _, _, _)
\* solver.py _generate_timeline: `for i in range(len(value))`, from i = k
SolverStamps(tl, key, value, k) ==
    IF k > Len(value) THEN tl
    ELSE LET listed == [tl EXCEPT ![value[k][2]] =
                            DictAppend(@, value[k][1], key)]
             diff == value[k + 1][2] - value[k][2]
         IN  IF k + 1 <= Len(value) /\ value[k][1] # value[k + 1][1]
                /\ diff > 1
             THEN SolverStamps(SolverLink(listed, key,
                                   LinkStr(value[k][1], value[k + 1][1]),
                                   value[k][2], 1, diff),
                               key, value, k + 1)
             ELSE SolverStamps(listed, key, value, k + 1)

RECURSIVE SolverItems(_, _, _, _)
\* solver.py _generate_timeline: `for key, value in solutions.items()`,
\* the keys in the order _generate_solution inserted them
SolverItems(tl, solutions, k, n) ==
    IF k > n THEN tl
    ELSE IF DroneId(k) \in DOMAIN solutions
    THEN SolverItems(SolverStamps(tl, DroneId(k),
                                  solutions[DroneId(k)].stamps, 1),
                     solutions, k + 1, n)
    ELSE SolverItems(tl, solutions, k + 1, n)

RECURSIVE SolverKeys(_, _, _)
\* [key for key in solutions.keys()]
SolverKeys(solutions, k, n) ==
    IF k > n THEN << >>
    ELSE IF DroneId(k) \in DOMAIN solutions
    THEN <<DroneId(k)>> \o SolverKeys(solutions, k + 1, n)
    ELSE SolverKeys(solutions, k + 1, n)

\* solver.py _generate_timeline on the solutions of _generate_solution,
\* every one of them a list of stamps; nothing is returned without a map
SolverTimeline(m, solutions) ==
    IF m = NoMap THEN << >>
    ELSE LET last_turn == SolverMaxTurn(solutions)
             filled == SolverItems([t \in 0..last_turn |-> << >>],
                                   solutions, 1, m.nb_drones)
         IN  [filled EXCEPT ![0] =
                  DictSet(@, m.start_hub.name,
                          SolverKeys(solutions, 1, m.nb_drones))]

(***************************************************************************)
(* srcs/visualizer/game.py: the replay of the Renderer.  hub_drones maps   *)
(* the name of each Hub of self.hubs to its drones field and               *)
(* connection_drones lists the drones field of self.connections, in the    *)
(* order of the map's connections.                                         *)
(***************************************************************************)
\* key.split("-") on a key of the timeline: a hub name or an edge label
SplitDash(m, key) ==
    IF \E p \in HubNames(m) \X HubNames(m) : key = p[1] \o "-" \o p[2]
    THEN CHOOSE p \in HubNames(m) \X HubNames(m) :
             key = p[1] \o "-" \o p[2]
    ELSE <<key>>

RECURSIVE ShowItems(_, _, _, _, _)
\* _update_advencement: `for key, value in turn.items()`, from item k;
\* shown holds hub.drones by name and connection.drones by index
ShowItems(m, items, k, shown, backspace) ==
    IF k > Len(items) THEN shown
    ELSE LET key == items[k][1]
             value == items[k][2]
             link == SplitDash(m, key)
             joins(n) == \/ /\ m.connections[n].zone_1 = link[1]
                            /\ m.connections[n].zone_2 = link[2]
                         \/ /\ m.connections[n].zone_1 = link[2]
                            /\ m.connections[n].zone_2 = link[1]
             connection == CHOOSE n \in 1..Len(m.connections) :
                               joins(n) /\ \A o \in 1..(n - 1) : ~joins(o)
         IN  IF Len(link) = 1
             THEN IF key # m.end_hub.name
                  THEN ShowItems(m, items, k + 1,
                           [shown EXCEPT !.hubs[key] = Len(value)],
                           backspace)
                  ELSE IF backspace
                  THEN ShowItems(m, items, k + 1,
                           [shown EXCEPT !.hubs[key] = @ - Len(value)],
                           backspace)
                  ELSE ShowItems(m, items, k + 1,
                           [shown EXCEPT !.hubs[key] = @ + Len(value)],
                           backspace)
             ELSE ShowItems(m, items, k + 1,
                      [shown EXCEPT !.connections[connection] = Len(value)],
                      backspace)

\* UpdateAdvencement that leaves the counts of the previous turn in place
UpdateAdvencement_NoReset(m, items, shown, backspace) ==
    ShowItems(m, items, 1, shown, backspace)

\* Renderer._update_advencement on turn = self.timeline[self.turn]
UpdateAdvencement(m, items, shown, backspace) ==
    ShowItems(m, items, 1,
        [hubs |-> [name \in DOMAIN shown.hubs |->
                     IF name # m.end_hub.name THEN 0 ELSE shown.hubs[name]],
         connections |-> [k \in DOMAIN shown.connections |-> 0]],
        backspace)

\* Renderer.__init__ and _init_datas have run on a network of two hubs, or
\* one whose endpoints are not both normal, on which _generate_solution
\* gave every drone a list of stamps
RendererInit ==
    /\ map \in TwoHubMaps \cup EndpointMaps
    /\ EndReachable
    /\ LET run == SolverGenerate(map, 1, << >>, << >>)
       IN  /\ \A id \in DOMAIN run.solution : ~run.solution[id].none
           /\ records = SolverRecords(map, 1,
                            [n \in HubNames(map) |-> <<>>])
           /\ index_hubs = IndexHubs(map)
           /\ reservation = run.reservation
           /\ solution = [id \in DOMAIN run.solution |->
                            run.solution[id].stamps]
           /\ timeline = SolverTimeline(map, run.solution)
           /\ max_turn = SolverMaxTurn(run.solution)
    /\ i = map.nb_drones
    /\ heap = {}
    /\ visited = {}
    /\ path = None
    /\ output = << >>
    /\ self_turn = 0
    /\ hub_drones = [name \in HubNames(map) |->
                       IF name = map.start_hub.name THEN map.nb_drones
                                                    ELSE 0]
    /\ connection_drones = [k \in 1..Len(map.connections) |-> 0]
    /\ pc = "_manage_events"
    /\ argv = <<"main.py", "map.txt">>
    /\ file = map
    /\ exit_status = << >>
    /\ NoValidation
    /\ NoScan

\* _manage_events on K_SPACE, with _update_advencement(False).  The count
\* of end_hub is followed within -MaxShown..MaxShown
Space ==
    /\ pc = "_manage_events"
    /\ hub_drones[map.end_hub.name] \in (0 - MaxShown)..MaxShown
    /\ IF self_turn < max_turn
       THEN LET shown == UpdateAdvencement(map, timeline[self_turn + 1],
                             [hubs |-> hub_drones,
                              connections |-> connection_drones], FALSE)
            IN  /\ self_turn' = self_turn + 1
                /\ hub_drones' = shown.hubs
                /\ connection_drones' = shown.connections
       ELSE UNCHANGED <<self_turn, hub_drones, connection_drones>>
    /\ UNCHANGED <<solverVars, pc, timeline, output, max_turn>>
    /\ UNCHANGED <<driverVars, validationVars, scanVars>>

\* _manage_events on K_BACKSPACE, with _update_advencement(True)
Backspace ==
    /\ pc = "_manage_events"
    /\ hub_drones[map.end_hub.name] \in (0 - MaxShown)..MaxShown
    /\ IF self_turn > 0
       THEN LET shown == UpdateAdvencement(map, timeline[self_turn - 1],
                             [hubs |-> hub_drones,
                              connections |-> connection_drones], TRUE)
            IN  /\ self_turn' = self_turn - 1
                /\ hub_drones' = shown.hubs
                /\ connection_drones' = shown.connections
       ELSE UNCHANGED <<self_turn, hub_drones, connection_drones>>
    /\ UNCHANGED <<solverVars, pc, timeline, output, max_turn>>
    /\ UNCHANGED <<driverVars, validationVars, scanVars>>

RendererNext == Space \/ Backspace

RendererSpec == RendererInit /\ [][RendererNext]_vars

\* the replay is running
Replaying == pc = "_manage_events"

\* the number of drones whose path has reached end_hub by turn t
Arrived(t) ==
    Cardinality({ id \in DOMAIN solution : ArrivalTurn(solution[id]) <= t })

\* the number of drones timeline[t] lists under key, 0 when key is absent
ListedAt(t, key) ==
    IF \E k \in 1..Len(timeline[t]) : timeline[t][k][1] = key
    THEN Len(timeline[t][CHOOSE k \in 1..Len(timeline[t]) :
                             timeline[t][k][1] = key][2])
    ELSE 0

(***************************************************************************)
(* C36: in the visualizer, after any sequence of SPACE and BACKSPACE key   *)
(* presses, the drone count shown for end_hub is the number of drones      *)
(* whose path has reached end_hub at or before the current turn, so        *)
(* stepping forward and back restores the count and the count is 0 at      *)
(* turn 0.                                                                 *)
(***************************************************************************)
C36_EndHubCount ==
    Replaying => hub_drones[map.end_hub.name] = Arrived(self_turn)

(***************************************************************************)
(* C37: in the visualizer, after any sequence of SPACE and BACKSPACE key   *)
(* presses, the replay turn is within 0..max_turn, and for every hub other *)
(* than end_hub and for every connection the displayed drone count is the  *)
(* number of drones listed under that hub name or edge label in            *)
(* timeline[turn], 0 when absent.                                          *)
(***************************************************************************)
C37_ReplayShowsTimeline ==
    Replaying =>
        /\ self_turn \in 0..max_turn
        /\ \A name \in HubNames(map) \ {map.end_hub.name} :
               hub_drones[name] = ListedAt(self_turn, name)
        /\ \A k \in 1..Len(map.connections) :
               connection_drones[k] =
                   ListedAt(self_turn, LinkStr(map.connections[k].zone_1,
                                               map.connections[k].zone_2))

\* the replay stepped back to a turn after 0 at which a drone is in flight
\* on a connection and another hub than end_hub holds a drone
C37_Witness ==
    /\ Replaying
    /\ self_turn > 0
    /\ self_turn < max_turn
    /\ hub_drones[map.end_hub.name] # Arrived(self_turn)
    /\ \E k \in 1..Len(map.connections) : connection_drones[k] > 0
    /\ \E name \in HubNames(map) \ {map.end_hub.name} : hub_drones[name] > 0

\* every drone of the network has a path in the solution
EveryDroneHasPath == DOMAIN solution = DroneIds(map.nb_drones)

(***************************************************************************)
(* C38: the two scheduler implementations agree.  On every network for     *)
(* which each drone's search finds a path, _generate_solution and          *)
(* _generate_timeline of srcs/solver/solver.py return the same path map,   *)
(* the same reservation table and the same timeline as generate_solution   *)
(* and generate_timeline of srcs/solver/graph_solver.py.                   *)
(***************************************************************************)
C38_SchedulersAgree ==
    (TimelineBuilt /\ map # NoMap /\ EveryDroneHasPath) =>
        LET run == SolverGenerate(map, 1, << >>, << >>)
        IN  /\ DOMAIN run.solution = DOMAIN solution
            /\ \A id \in DOMAIN solution :
                   /\ ~run.solution[id].none
                   /\ run.solution[id].stamps = solution[id]
            /\ run.reservation = reservation
            /\ SolverTimeline(map, run.solution) = timeline

\* both schedulers have run on a network of three drones where a drone
\* waits, a drone is in flight on a connection and an entry of the
\* reservation table holds two drones
C38_Witness ==
    /\ TimelineBuilt
    /\ map # NoMap
    /\ EveryDroneHasPath
    /\ map.nb_drones = MaxDrones
    /\ \E id \in DOMAIN solution : \E k \in 1..(Len(solution[id]) - 1) :
           solution[id][k][1] = solution[id][k + 1][1]
    /\ \E t \in DOMAIN timeline : \E k \in 1..Len(timeline[t]) :
           timeline[t][k][1] \in EdgeLabels
    /\ \E key \in DOMAIN reservation : Len(reservation[key]) >= 2
    /\ SolverGenerate(map, 1, << >>, << >>).reservation = reservation

====
